---- MODULE Spec2Model ----
(***************************************************************************)
(* search-engine-service: the distributed lock (pkg/locker/redis.go), the  *)
(* sync scheduler (internal/job/sync_scheduler.go), the sync and search    *)
(* services (internal/app/service), the contents repository                *)
(* (infra/postgres) and the search cache (infra/redis/cache.go).           *)
(*                                                                         *)
(* Time is a coarse integer clock.  A key written at time t with TTL d     *)
(* expires at t + d.  A command that reaches the key-value backend in the  *)
(* same clock unit as the expiry may arrive before or after it, so at      *)
(* now = exp the command sees either the live key or the expired one.      *)
(***************************************************************************)
EXTENDS Integers, FiniteSets, Sequences, TLC

\* ---------------------------------------------------------------- bounds

\* the clock of the runs of the direct callers of the locker
MaxTime == 4

\* the clock of the runs of the schedulers
MaxSchedTime == 2

\* schedulers are started within this many clock units (both ticker phases)
MaxStartTime == 1

\* the schedulers whose Stop is called: the instances run the same code, and
\* stopping one while the other goes on is the case of every claim about Stop
Stoppers == {1}

\* locker instances (RedisLocker values sharing one backend)
Lockers == {1, 2}

\* scheduler instances; scheduler i owns locker i
Inst == {1, 2}

\* TTLs handed to Acquire by direct callers of the locker
TTLs == {1, 2}

\* sync.interval, sync.timeout (in clock units) and sync.on_startup of the
\* schedulers; the configuration loader accepts any pair of durations: a
\* timeout below the interval, with and without the startup run, and a
\* timeout equal to the interval
Configs ==
    { [interval |-> 2, timeout |-> 1, onStartup |-> TRUE],
      [interval |-> 2, timeout |-> 1, onStartup |-> FALSE],
      [interval |-> 1, timeout |-> 1, onStartup |-> FALSE] }

Providers == {"provider_a", "provider_b"}

\* the clock of the runs of the sync and search services
MaxAppTime == 2

\* SyncAll calls made one after the other
MaxRuns == 2

\* Fetch calls made on one provider client
MaxFetches == 6

\* the clock of the runs of a provider client
MaxFetchTime == 6

\* upserts that fill the table before a query
MaxQueryRows == 3

\* the oldest content scored, in days
MaxAge == 91

\* the clock of the runs with a manual sync
MaxAdminTime == 1

\* the clock of the runs in which every sync succeeds
MaxSteadyTime == 6

\* direct Upsert calls per concurrent caller
MaxUpserts == 2

\* locker calls that are between their backend command and their table access
MaxPending == 1

\* ------------------------------------------------------------- constants
LockKey == "sync:scheduler:lock"

Keys == {LockKey}

\* absence of a token: no entry in the mutexes table, no key in the backend
NoTok == 0

Tokens == 1 .. (Cardinality(Lockers) * Cardinality(Keys) + Cardinality(Keys) + MaxPending + 1)

NoKey == [val |-> NoTok, exp |-> 0]

NoTicker == -1

NoHold == [inst |-> 0, exp |-> 0, released |-> FALSE, cool |-> FALSE]

NoCall == [op |-> "none", inst |-> 0, ok |-> FALSE, err |-> "nil",
           before |-> NoTok, mine |-> NoTok, after |-> NoTok, elapsed |-> FALSE, ctxGone |-> FALSE]

VARIABLES
    now,        \* wall clock
    redis,      \* backend: key -> [val: token, exp: absolute expiry time]
    mutexes,    \* RedisLocker.mutexes, per locker: key -> token of the stored mutex
    lastHold,   \* history: the latest successful acquisition of LockKey
    lastCall,   \* history: the Acquire/Release call that returned last, until the clock or an executeSync moves on
    pend,       \* locker calls in flight: between their backend command and their table access or return
    cfg,        \* SyncScheduler.interval / .timeout, and runOnStartup
    mainPc,     \* caller of Start/Stop, per scheduler
    pc,         \* the driver goroutine (run), per scheduler
    cancelled,  \* s.ctx has been cancelled
    wg,         \* s.wg: the WaitGroup counter, per scheduler
    tickerStart,\* creation time of the driver's ticker, NoTicker before
    tickReady,  \* ticker.C holds a tick (channel of capacity 1)
    syncCtx,    \* the context SyncAll runs under
    job,        \* the SyncAll executeSync has called, per scheduler: its goroutines and results
    allOk,      \* history: no SyncAll so far returned a provider error
    syncCount,  \* history, kept while allOk: SyncAll invocations started before 3 * interval
    undisturbed \* history, kept while allOk: both started at time 0, no transport error, no Stop

lockVars == <<redis, mutexes, lastHold, lastCall, pend>>

schedVars == <<cfg, mainPc, pc, cancelled, wg, tickerStart, tickReady, syncCtx, job>>

histVars == <<syncCount, allOk, undisturbed>>

VARIABLES
    rows,       \* the contents table: a set of rows
    syncPc,     \* the caller of SyncService.SyncAll: "idle" or "running"
    runs,       \* SyncAll calls that have returned
    gor,        \* SyncAll's goroutines, per provider index: position in syncProvider
    stamp,      \* per provider index: the time.Now() taken by BulkUpsert
    results,    \* the results slice of the running SyncAll
    ret,        \* the slice the latest SyncAll returned
    settled,    \* history: provider indexes in the order their goroutines finished
    outcome,    \* history: what each provider's own fetch and upsert did in this run
    prevRows,   \* history: the table when the running or latest SyncAll was called
    prevOk,     \* history: a SyncAll had returned before that call, without any error
    batch,      \* history, per provider index: what Fetch returned in this run, and whether BulkUpsert was called
    upPc,       \* direct callers of Repository.Upsert: "idle" or "stmt"
    upArg,      \* per caller: the content handed to Upsert, with the timestamp taken
    upCount     \* per caller: Upsert calls made

syncVars == <<syncPc, runs, gor, stamp, results, ret, settled, outcome, prevRows, prevOk, batch>>

upVars == <<upPc, upArg, upCount>>

VARIABLES
    cacheOn,    \* SearchService.cache is not nil (cache.enabled)
    cache,      \* the cache backend: full key -> [kind, body, exp]
    sr,         \* Search calls in flight, per caller: position, params, what was read
    lastSearch, \* history: the Search call that returned in the latest step
    keyCalls    \* history: the latest two cache keys built, with params and time

searchVars == <<cacheOn, cache, sr, lastSearch, keyCalls>>

VARIABLES
    cbCfg,      \* cfg.CB: the circuit breaker configuration of that provider
    cb,         \* a provider's circuit breaker: state, generation, counts, expiry
    ft,         \* Fetch calls in flight on that provider, per caller: "run" inside Execute, "log" after its error
    fetches,    \* Fetch calls started
    openedAt,   \* history: when the breaker last went to open (-1: never)
    fstat,      \* history: whether Execute returned an error in every Fetch so far, trailing run of 500s, time the third Fetch returned
    lastFetch   \* history: the Fetch call whose Execute returned in the latest step, and what it returns

fetchVars == <<cbCfg, cb, ft, fetches, openedAt, fstat, lastFetch>>

VARIABLES
    qr          \* history: the latest repository query, with its params and result

queryVars == <<qr>>

VARIABLES
    scored      \* history: the latest score computation, with its content

scoreVars == <<scored>>

VARIABLES
    adm         \* a manual sync through the admin endpoints: position, call, outcome

adminVars == <<adm>>

VARIABLES
    clr         \* a Cache.Clear in flight: the keys its SCAN found, before its DEL

storeVars == <<clr>>

extVars == <<fetchVars, queryVars, scoreVars, adminVars, storeVars>>

appVars == <<rows, syncVars, upVars, searchVars, extVars>>

vars == <<now, lockVars, schedVars, histVars, appVars>>

\* ------------------------------------------------------ key-value backend

\* passive expiry: a key whose expiry lies before t is gone at t
ExpireKeys(r, t) == [k \in Keys |-> IF r[k].val # NoTok /\ r[k].exp < t THEN NoKey ELSE r[k]]

\* the entry a command arriving at time t finds under k
Observe(r, k, t, seeExpired) ==
    IF r[k].val # NoTok /\ (t < r[k].exp \/ (t = r[k].exp /\ ~seeExpired))
    THEN r[k] ELSE NoKey

\* the outcomes of that race: open only when the command arrives at the expiry
Races(r, k, t) == IF r[k].val # NoTok /\ r[k].exp = t THEN BOOLEAN ELSE {FALSE}

\* a call fails at the transport because its context is done, or because the
\* backend is unreachable
Transport == {<<FALSE, FALSE>>, <<TRUE, FALSE>>, <<FALSE, TRUE>>}

SetNX_Overwrite(r, k, tok, ttl, t, seeExpired) ==
    [redis |-> [r EXCEPT ![k] = [val |-> tok, exp |-> t + ttl]], ok |-> TRUE]

\* SET key value NX PX ttl
SetNX(r, k, tok, ttl, t, seeExpired) ==
    IF Observe(r, k, t, seeExpired).val = NoTok
    THEN [redis |-> [r EXCEPT ![k] = [val |-> tok, exp |-> t + ttl]], ok |-> TRUE]
    ELSE [redis |-> r, ok |-> FALSE]

\* the release script: delete the key only when it still holds the caller's value
\* status 1 deleted, 0 other value, -1 key absent
DeleteIfEqual(r, k, tok, t, seeExpired) ==
    LET cur == Observe(r, k, t, seeExpired) IN
    IF cur.val = tok THEN [redis |-> [r EXCEPT ![k] = NoKey], status |-> 1]
    ELSE IF cur.val = NoTok THEN [redis |-> [r EXCEPT ![k] = NoKey], status |-> -1]
    ELSE [redis |-> r, status |-> 0]

\* ------------------------------------------------------------ redsync mutex

InUse(r, m) ==
    {r[k].val : k \in Keys} \cup {m[i][k] : i \in Lockers, k \in Keys} \cup {c.tok : c \in pend}

\* the random value of a new mutex: distinct from every value still referenced
FreshToken(r, m) == CHOOSE t \in Tokens : t \notin InUse(r, m) /\ \A u \in Tokens : u < t => u \in InUse(r, m)

\* Mutex.LockContext with tries = 1 on a single node
LockContext(r, k, tok, ttl, t, ctxDone, fail, seeExpired) ==
    IF ctxDone THEN [redis |-> r, err |-> "ctx"]
    ELSE IF fail THEN [redis |-> r, err |-> "redis"]
    ELSE LET s == SetNX(r, k, tok, ttl, t, seeExpired) IN
         [redis |-> s.redis, err |-> IF s.ok THEN "nil" ELSE "taken"]

\* Mutex.UnlockContext on a single node: anything but a deletion is an error
UnlockContext(r, k, tok, t, ctxDone, fail, seeExpired) ==
    IF ctxDone THEN [redis |-> r, ok |-> FALSE, err |-> "ctx"]
    ELSE IF fail THEN [redis |-> r, ok |-> FALSE, err |-> "redis"]
    ELSE LET d == DeleteIfEqual(r, k, tok, t, seeExpired) IN
         [redis |-> d.redis, ok |-> d.status = 1,
          err |-> IF d.status = 1 THEN "nil" ELSE IF d.status = 0 THEN "taken" ELSE "expired"]

\* -------------------------------------------------------------- RedisLocker

Acquire_NoExpiryOption(r, m, i, k, ttl, t, ctxDone, fail, seeExpired) ==
    LET tok == FreshToken(r, m)
        l   == LockContext(r, k, tok, ttl + MaxTime, t, ctxDone, fail, seeExpired)
    IN  IF l.err = "taken" THEN [redis |-> l.redis, mutexes |-> m, acquired |-> FALSE, err |-> "nil"]
        ELSE IF l.err # "nil" THEN [redis |-> l.redis, mutexes |-> m, acquired |-> FALSE, err |-> l.err]
        ELSE [redis |-> l.redis, mutexes |-> [m EXCEPT ![i][k] = tok], acquired |-> TRUE, err |-> "nil"]

\* RedisLocker.Acquire: (acquired, err); "lock already taken" is (false, nil)
Acquire(r, m, i, k, ttl, t, ctxDone, fail, seeExpired) ==
    LET tok == FreshToken(r, m)
        l   == LockContext(r, k, tok, ttl, t, ctxDone, fail, seeExpired)
    IN  IF l.err = "taken" THEN [redis |-> l.redis, mutexes |-> m, acquired |-> FALSE, err |-> "nil"]
        ELSE IF l.err # "nil" THEN [redis |-> l.redis, mutexes |-> m, acquired |-> FALSE, err |-> l.err]
        ELSE [redis |-> l.redis, mutexes |-> [m EXCEPT ![i][k] = tok], acquired |-> TRUE, err |-> "nil"]

Release_KeepOnError(r, m, i, k, t, ctxDone, fail, seeExpired) ==
    LET tok == m[i][k]
    IN  IF tok = NoTok THEN [redis |-> r, mutexes |-> m, called |-> FALSE, ok |-> FALSE, err |-> "nil"]
        ELSE LET u == UnlockContext(r, k, tok, t, ctxDone, fail, seeExpired) IN
             [redis |-> u.redis, mutexes |-> IF u.err = "nil" THEN [m EXCEPT ![i][k] = NoTok] ELSE m,
              called |-> TRUE, ok |-> u.ok, err |-> u.err]

\* RedisLocker.Release: the table entry is dropped first; no entry is (nil)
Release(r, m, i, k, t, ctxDone, fail, seeExpired) ==
    LET tok == m[i][k]
        m2  == [m EXCEPT ![i][k] = NoTok]
    IN  IF tok = NoTok THEN [redis |-> r, mutexes |-> m2, called |-> FALSE, ok |-> FALSE, err |-> "nil"]
        ELSE LET u == UnlockContext(r, k, tok, t, ctxDone, fail, seeExpired) IN
             [redis |-> u.redis, mutexes |-> m2, called |-> TRUE, ok |-> u.ok, err |-> u.err]

\* history records of a call: what the key held for a command arriving then
\* (before), the caller's table entry (mine), what the key holds afterwards
\* (after), whether the latest acquisition was never released and its TTL
\* had run out (elapsed), and whether the caller's context had been cancelled
\* by the time the call returned (ctxGone)
AcquireCall(r, m, i, k, t, seeExpired, a, h) ==
    [op |-> "Acquire", inst |-> i, ok |-> a.acquired, err |-> a.err,
     before |-> Observe(r, k, t, seeExpired).val, mine |-> m[i][k],
     after |-> Observe(a.redis, k, t, seeExpired).val,
     elapsed |-> h.inst # 0 /\ ~h.released /\ h.exp < t, ctxGone |-> FALSE]

ReleaseCall(r, m, i, k, t, seeExpired, rel, h) ==
    [op |-> "Release", inst |-> i, ok |-> rel.ok, err |-> rel.err,
     before |-> Observe(r, k, t, seeExpired).val, mine |-> m[i][k],
     after |-> Observe(rel.redis, k, t, seeExpired).val,
     elapsed |-> h.inst # 0 /\ ~h.released /\ h.exp < t, ctxGone |-> FALSE]

HoldAfterAcquire(h, i, k, t, ttl, a) ==
    IF a.acquired /\ k = LockKey
    THEN [inst |-> i, exp |-> t + ttl, released |-> FALSE, cool |-> FALSE] ELSE h

HoldAfterRelease(h, k, rel) ==
    IF rel.ok /\ k = LockKey THEN [h EXCEPT !.released = TRUE] ELSE h

\* ------------------------------------------------------------ SyncScheduler

\* executeSync of instance i is inside Acquire: the backend has answered its
\* command, the answer has not come back to the caller
Acquiring(i) == pc[i] = "acquire"

\* executeSync of instance i is inside SyncAll
Syncing(i) == pc[i] = "syncing"

\* executeSync of instance i has seen an error in the results and is about to
\* call Release
Releasing(i) == pc[i] = "release"

\* executeSync of instance i is inside Release: the mutex is out of the table,
\* its unlock has not been sent
Unlocking(i) == pc[i] = "unlock"

\* executeSync of instance i is inside Release: the backend has answered the
\* unlock, the answer has not come back to the caller
Returning(i) == pc[i] = "return"

\* the driver of instance i has not created its ticker: its executeSync is the
\* one of the startup
FromStartup(i) == tickerStart[i] = NoTicker

NoCtx == [parent |-> "background", deadline |-> 0]

\* context.WithTimeout(parent, d) created at time t
WithTimeout(parent, t, d) == [parent |-> parent, deadline |-> t + d]

\* ctx.Done() is closed: deadline reached, or the parent s.ctx was cancelled
CtxDone(c, i, t, canc) == t >= c.deadline \/ (c.parent = "sched" /\ canc[i])

SyncContext_Background(t, timeout) == WithTimeout("background", t, timeout)

\* executeSync: ctx, cancel := context.WithTimeout(s.ctx, s.timeout)
SyncContext(t, timeout) == WithTimeout("sched", t, timeout)

LockTTL_Short(interval) == interval - 1

\* executeSync: the TTL handed to Acquire is the interval
LockTTL(interval) == interval

AcquireCtxDone_Background(i) == FALSE

\* executeSync: Acquire is called with s.ctx
AcquireCtxDone(i) == cancelled[i]

Proceed_IgnoreBusy(a) == a.err = "nil"

\* executeSync: SyncAll runs only after Acquire returned (true, nil)
Proceed(a) == a.err = "nil" /\ a.acquired

\* executeSync: hasError is set by any provider result carrying an error
HasError(res) == \E p \in Providers : res[p]

ShouldRelease_Always(res) == TRUE

\* executeSync: Release is called only when hasError
ShouldRelease(res) == HasError(res)

\* the driver is past its startup and has not exited
DriverLoops(i) == ~FromStartup(i) /\ pc[i] \in {"waiting", "acquire", "syncing", "release", "unlock", "return"}

\* state of the run loop once executeSync has returned; the ticker is created
\* after the startup executeSync, at the time of its return
AfterExec(i) ==
    /\ pc' = [pc EXCEPT ![i] = "waiting"]
    /\ tickerStart' = [tickerStart EXCEPT ![i] = IF FromStartup(i) THEN now ELSE @]
    /\ syncCtx' = [syncCtx EXCEPT ![i] = NoCtx]

\* a locker call of scheduler i in flight: the backend answered at time t,
\* call is what the caller will be told
InFlight(i, op, tok, call, t) == [op |-> op, inst |-> i, key |-> LockKey, tok |-> tok, call |-> call, at |-> t]

\* the table as Release found it before it took the mutex out
TableBefore(m, c) == [m EXCEPT ![c.inst][c.key] = c.tok]

\* the call of scheduler i that is in flight
FlightOf(i) == {c \in pend : c.inst = i}

\* a round trip to the backend is short against the clock unit: it ends in the
\* clock unit it began in, or right at the start of the next one
Overdue(i) == \E c \in FlightOf(i) : c.at < now

\* and so no command finds a key expired whose Acquire is still in flight: the
\* TTL is longer than the round trip
InOrder(r, seeExpired) == seeExpired => \A c \in pend : c.op # "acquire" \/ c.tok # r[LockKey].val

\* the injected provider list, in order
ProviderList == <<"provider_a", "provider_b">>

\* what each provider serves: a stable feed of (external id, payload version)
Feed ==
    [p \in Providers |->
        IF p = "provider_a" THEN <<[ext |-> 1, ver |-> 1], [ext |-> 2, ver |-> 1]>>
        ELSE <<[ext |-> 1, ver |-> 2]>>]

\* nothing fetched yet, BulkUpsert not called
NoBatch == [contents |-> <<>>, called |-> FALSE]

\* make([]SyncResult, len(s.providers)): zero values
ZeroResult == [Provider |-> "", Count |-> 0, Error |-> "nil"]

\* no SyncAll of a tick: no goroutine, no timestamp, no batch, no result
NoJob ==
    [gor |-> [idx \in DOMAIN ProviderList |-> "none"],
     stamp |-> [idx \in DOMAIN ProviderList |-> 0],
     contents |-> [idx \in DOMAIN ProviderList |-> <<>>],
     results |-> [idx \in DOMAIN ProviderList |-> ZeroResult]]

NoArg == [pid |-> "", ext |-> 0, ver |-> 0, updated |-> 0]

Upserters == {1, 2}

\* ------------------------------------------------- search params, cache key

\* cache.search_ttl, in clock units
SearchTTL == 1

\* cache.key_prefix
KeyPrefix == "search-engine"

\* params handed to Search by concurrent requests: the defaults are filled in
\* by Validate
SearchInputs ==
    {[Query |-> "", Type |-> "video", Page |-> 0, PageSize |-> 0, SortBy |-> "", SortOrder |-> ""]}

\* provider names handed to SyncProvider while searches run
SyncNames == {"provider_b", "provider_c"}

\* params for which cache keys are built
KeyInputs ==
    [Query : {"", "go", "go:video"}, Type : {"", "video"}, Page : {0, 1}, PageSize : {0, 100, 101},
     SortBy : {"", "score"}, SortOrder : {"", "desc"}]

\* SearchParams.Validate: bound correction
Validate_NoUpperClamp(p) ==
    [p EXCEPT !.Page = IF @ < 1 THEN 1 ELSE @,
              !.PageSize = IF @ < 1 THEN 20 ELSE @,
              !.SortBy = IF @ = "" THEN "score" ELSE @,
              !.SortOrder = IF @ = "" THEN "desc" ELSE @]

Validate(p) ==
    [p EXCEPT !.Page = IF @ < 1 THEN 1 ELSE @,
              !.PageSize = IF @ < 1 THEN 20 ELSE IF @ > 100 THEN 100 ELSE @,
              !.SortBy = IF @ = "" THEN "score" ELSE @,
              !.SortOrder = IF @ = "" THEN "desc" ELSE @]

buildSearchCacheKey_SkipEmpty(p) ==
    "search:" \o p.Query \o (IF p.Type = "" THEN "" ELSE ":" \o p.Type) \o ":" \o ToString(p.Page) \o ":"
        \o ToString(p.PageSize) \o ":" \o p.SortBy \o ":" \o p.SortOrder

\* fmt.Sprintf("search:%s:%s:%d:%d:%s:%s", ...)
buildSearchCacheKey(p) ==
    "search:" \o p.Query \o ":" \o p.Type \o ":" \o ToString(p.Page) \o ":" \o ToString(p.PageSize)
        \o ":" \o p.SortBy \o ":" \o p.SortOrder

\* Cache.buildKey
buildKey(key) == KeyPrefix \o ":" \o key

SearchCacheKey_Unclamped(p) == buildSearchCacheKey(p)

\* Search: params.Validate() rewrites the params the call received, then
\* cacheKey := buildSearchCacheKey(params), before Get and again before Set
SearchCacheKey(p) == buildSearchCacheKey(Validate(p))

CacheKeys == {buildKey(SearchCacheKey(p)) : p \in SearchInputs}

NoResult == [Contents |-> <<>>, Total |-> 0, Page |-> 0, PageSize |-> 0, TotalPages |-> 0]

\* no bytes: Get's nil, an absent key
NoData == [kind |-> "none", body |-> NoResult]

NoEntry == [kind |-> "none", body |-> NoResult, exp |-> 0]

\* what is left of an entry whose TTL has run out: nothing a Get can read
Expired == [kind |-> "expired", body |-> NoResult, exp |-> 0]

NoParams == [Query |-> "", Type |-> "", Page |-> 0, PageSize |-> 0, SortBy |-> "", SortOrder |-> ""]

Searchers == {1, 2}

NoSr == [pc |-> "idle", raw |-> NoParams, getKey |-> "", ops |-> 0, getErr |-> "nil", unErr |-> "nil",
         seen |-> NoData, lapsed |-> FALSE, total |-> 0, res |-> NoResult, repoErr |-> "nil"]

NoSearch == [done |-> FALSE, raw |-> NoParams, arg |-> NoParams, getKey |-> "", setKey |-> "", ops |-> 0,
             getErr |-> "nil", unErr |-> "nil", setErr |-> "nil", hit |-> FALSE, seen |-> NoData,
             lapsed |-> FALSE, repoCalls |-> 0, counted |-> 0, repoRes |-> NoResult, repoErr |-> "nil",
             out |-> NoResult, err |-> "nil", stored |-> NoEntry]

NoKeyCall == [p |-> NoParams, t |-> -1, key |-> ""]

\* ------------------------------------------------- provider client: data

\* retry.max_attempts, handed to SetRetryCount
MaxAttempts == 2

\* circuit_breaker.max_requests, .interval, .timeout (in clock units) of a
\* provider: the loader accepts any values; an interval above the timeout, as
\* the defaults have it, and a timeout of several intervals
BreakerConfigs ==
    { [MaxRequests |-> 2, Interval |-> 2, Timeout |-> 1],
      [MaxRequests |-> 2, Interval |-> 1, Timeout |-> 4] }

\* the breaker settings of the runs that are not about the breaker
BreakerDefaults == [MaxRequests |-> 2, Interval |-> 2, Timeout |-> 1]

\* circuit_breaker.failure_ratio = 0.6, as RatioNum / RatioDen
RatioNum == 6

RatioDen == 10

\* the minimum of requests in ReadyToTrip
MinRequests == 3

\* the caller of Fetch on one client: a sync calls Fetch once per provider,
\* and the syncs of the scheduler follow one another
Fetchers == {1}

\* what one HTTP attempt ends in: a response status, or an error of the
\* request (connection refused, timeout, cancelled context)
Outcomes == {"200", "404", "500", "err"}

StatusOf(o) == CASE o = "200" -> 200 [] o = "404" -> 404 [] o = "500" -> 500 [] OTHER -> 0

\* gobreaker.Counts, cleared
ZeroCounts ==
    [Requests |-> 0, TotalSuccesses |-> 0, TotalFailures |-> 0,
     ConsecutiveSuccesses |-> 0, ConsecutiveFailures |-> 0]

\* the zero time.Time of expiry
NoExpiry == -1

\* the breaker NewCircuitBreaker returns: closed, first generation
NewBreaker(interval) ==
    [state |-> "closed", generation |-> 1, counts |-> ZeroCounts,
     expiry |-> IF interval = 0 THEN NoExpiry ELSE interval]

NoFt == [pc |-> "idle", gen |-> 0, reqAdm |-> 0, n |-> 0, last |-> "none", all5xx |-> TRUE,
         ctxDone |-> FALSE]

NoFetch == [done |-> FALSE, kind |-> "none", attempts |-> 0, last |-> "none", all5xx |-> FALSE,
            cancelled |-> FALSE, parsed |-> FALSE, contents |-> FALSE, reqAdm |-> 0, sameGen |-> FALSE, stateAt |-> "none", countsAt |-> ZeroCounts,
            countsBefore |-> ZeroCounts, stateAfter |-> "none",
            allFailedBefore |-> FALSE, streakBefore |-> 0]

NoStat == [allFailed |-> TRUE, streak500 |-> 0, thirdAt |-> -1]

\* the trailing run of 500s is counted up to the five the scenario drives
StreakCap == 5

\* no manual sync so far; result is the returned SyncResult or results, <<>>
\* for a nil pointer
NoAdmin ==
    [pc |-> "idle", op |-> "none", name |-> "", done |-> FALSE, status |-> 0,
     result |-> <<>>, err |-> "nil"]

\* no Cache.Clear in flight
NoScan == [pc |-> "idle", found |-> {}]

\* a nil *Content
NilContent == [nil |-> TRUE, Type |-> "", Views |-> 0, Likes |-> 0, ReadingTime |-> 0, Reactions |-> 0, age |-> 0]

NoScore == [done |-> FALSE, c |-> NilContent, score |-> 0]

NoQuery == [pc |-> "idle", done |-> FALSE, p |-> NoParams, err |-> "nil", total |-> 0, at |-> {},
            res |-> NoResult, any |-> {}, twin |-> {}]

InitClient ==
    /\ cbCfg \in BreakerConfigs
    /\ cb = NewBreaker(cbCfg.Interval)

InitApp ==
    /\ InitClient
    /\ ft = [f \in Fetchers |-> NoFt]
    /\ fetches = 0
    /\ openedAt = -1
    /\ fstat = NoStat
    /\ lastFetch = NoFetch
    /\ qr = NoQuery
    /\ scored = NoScore
    /\ adm = NoAdmin
    /\ clr = NoScan
    /\ cache = [k \in CacheKeys |-> NoEntry]
    /\ sr = [s \in Searchers |-> NoSr]
    /\ lastSearch = NoSearch
    /\ keyCalls = <<NoKeyCall, NoKeyCall>>
    /\ syncPc = "idle"
    /\ runs = 0
    /\ gor = [idx \in DOMAIN ProviderList |-> "none"]
    /\ stamp = [idx \in DOMAIN ProviderList |-> 0]
    /\ results = [idx \in DOMAIN ProviderList |-> ZeroResult]
    /\ ret = <<>>
    /\ settled = <<>>
    /\ outcome = [idx \in DOMAIN ProviderList |-> "none"]
    /\ prevRows = {}
    /\ prevOk = FALSE
    /\ batch = [idx \in DOMAIN ProviderList |-> NoBatch]
    /\ upPc = [u \in Upserters |-> "idle"]
    /\ upArg = [u \in Upserters |-> NoArg]
    /\ upCount = [u \in Upserters |-> 0]

\* the lock and the schedulers
InitSched ==
    /\ now = 0
    /\ redis = [k \in Keys |-> NoKey]
    /\ mutexes = [i \in Lockers |-> [k \in Keys |-> NoTok]]
    /\ lastHold = NoHold
    /\ lastCall = NoCall
    /\ pend = {}
    /\ cfg \in Configs
    /\ mainPc = [i \in Inst |-> "init"]
    /\ pc = [i \in Inst |-> "idle"]
    /\ cancelled = [i \in Inst |-> FALSE]
    /\ wg = [i \in Inst |-> 0]
    /\ tickerStart = [i \in Inst |-> NoTicker]
    /\ tickReady = [i \in Inst |-> FALSE]
    /\ syncCtx = [i \in Inst |-> NoCtx]
    /\ job = [i \in Inst |-> NoJob]
    /\ syncCount = 0
    /\ allOk = TRUE
    /\ undisturbed = TRUE

\* an empty table; cache.enabled defaults to false
Init == InitSched /\ InitApp /\ cbCfg = BreakerDefaults /\ rows = {} /\ cacheOn = FALSE

\* ------------------------------------------------- contents repository
RowKey(r) == <<r.pid, r.ext>>

\* gen_random_uuid(): an id no row of the table carries
NewID(tbl) == IF tbl = {} THEN 1 ELSE 1 + CHOOSE m \in {r.id : r \in tbl} : \A r \in tbl : r.id <= m

ConflictUpdate_AllColumns(r, c, created) ==
    [r EXCEPT !.ver = c.ver, !.updated = c.updated, !.created = created]

\* ON CONFLICT (provider_id, external_id) DO UPDATE SET <the listed columns>:
\* the payload and updated_at are taken from the new values, id and created_at
\* are not in the list
ConflictUpdate(r, c, created) ==
    [r EXCEPT !.ver = c.ver, !.updated = c.updated]

\* the clock values at which the INSERT of an Upsert may be built: not before
\* UpdatedAt was taken (ts), not after the statement commits (t)
BuildTimes(ts, t) == ts .. t

\* autoCreateTime: a model with a zero CreatedAt gets the client's clock
\* (NowFunc) when the INSERT is built, at time tb; the contents of the
\* providers and of the callers of Upsert come with a zero CreatedAt
CreatedAt(c, tb) == tb

\* INSERT ... ON CONFLICT of one model, built at time tb; the content comes
\* with no id
UpsertRow(tbl, c, tb) ==
    IF \E r \in tbl : RowKey(r) = <<c.pid, c.ext>>
    THEN {IF RowKey(r) = <<c.pid, c.ext>> THEN ConflictUpdate(r, c, CreatedAt(c, tb)) ELSE r : r \in tbl}
    ELSE tbl \cup {[pid |-> c.pid, ext |-> c.ext, id |-> NewID(tbl),
                    created |-> CreatedAt(c, tb), updated |-> c.updated, ver |-> c.ver]}

\* Upsert called for the contents cs one after the other, each INSERT built
\* at time tb
RECURSIVE UpsertAll(_, _, _)
UpsertAll(tbl, cs, tb) ==
    IF cs = <<>> THEN tbl ELSE UpsertAll(UpsertRow(tbl, Head(cs), tb), Tail(cs), tb)

Fetched_OneProviderID(p) == IF p \notin Providers THEN <<>> ELSE [k \in DOMAIN Feed[p] |-> [pid |-> ProviderList[1], ext |-> Feed[p][k].ext, ver |-> Feed[p][k].ver]]

\* what Provider.Fetch returns on success: the feed items as domain contents,
\* each with the provider's own id (ToDomain(c.providerID))
Fetched(p) == IF p \notin Providers THEN <<>> ELSE [k \in DOMAIN Feed[p] |-> [pid |-> p, ext |-> Feed[p][k].ext, ver |-> Feed[p][k].ver]]

\* the models of one statement name one (provider_id, external_id) twice: the
\* INSERT ... ON CONFLICT DO UPDATE would touch a row a second time, which
\* the database refuses
RepeatsKey(cs) == \E i, j \in DOMAIN cs : i # j /\ cs[i].pid = cs[j].pid /\ cs[i].ext = cs[j].ext

\* CreateInBatches(models, 100): the size of a batch
BatchSize == 100

\* the number of batches, and so of INSERT statements, of n models
NumBatches(n, size) == (n + size - 1) \div size

\* the b-th batch of the models ms: the next size of them, or what is left
BatchOf(ms, size, b) ==
    SubSeq(ms, (b - 1) * size + 1, IF b * size < Len(ms) THEN b * size ELSE Len(ms))

\* one of the statements of the call is refused: a key comes twice within one
\* batch (a key that comes back in a later batch is updated there)
Refused(cs, size) ==
    \E b \in 1 .. NumBatches(Len(cs), size) : RepeatsKey(BatchOf(cs, size, b))

\* the outcomes of BulkUpsert at the database: the transaction of its
\* statements commits (TRUE), or a statement fails and it is rolled back
StatementOutcomes(cs) == IF Refused(cs, BatchSize) THEN {FALSE} ELSE BOOLEAN

\* the clock values at which the INSERTs of a BulkUpsert of the contents cs
\* may be built, one per batch and one after the other, between the time
\* UpdatedAt was taken (ts) and the commit (t)
BatchBuildTimes(cs, ts, t) ==
    {tbs \in [1 .. NumBatches(Len(cs), BatchSize) -> ts .. t] :
        \A a, b \in DOMAIN tbs : a <= b => tbs[a] <= tbs[b]}

\* every statement of a BulkUpsert of the contents cs built at time t
BuiltAt(cs, t) == [b \in 1 .. NumBatches(Len(cs), BatchSize) |-> t]

\* Create of one batch: one INSERT ... ON CONFLICT DO UPDATE with a VALUES row
\* per model, built at time tb, on models with pairwise different keys. A
\* model whose key a row of the table holds updates that row, the others are
\* inserted in the order of the slice, each with an id of its own
Create(tbl, ms, tb) ==
    LET Held == {RowKey(r) : r \in tbl}
        New == {k \in DOMAIN ms : <<ms[k].pid, ms[k].ext>> \notin Held}
        first == NewID(tbl)
    IN  {IF \E k \in DOMAIN ms : RowKey(r) = <<ms[k].pid, ms[k].ext>>
         THEN LET k == CHOOSE j \in DOMAIN ms : RowKey(r) = <<ms[j].pid, ms[j].ext>>
              IN  ConflictUpdate(r, ms[k], CreatedAt(ms[k], tb))
         ELSE r : r \in tbl}
        \cup {[pid |-> ms[k].pid, ext |-> ms[k].ext, id |-> first + Cardinality({j \in New : j < k}),
               created |-> CreatedAt(ms[k], tb), updated |-> ms[k].updated, ver |-> ms[k].ver] : k \in New}

\* CreateInBatches: one INSERT ... ON CONFLICT per batch of size models, in
\* the order of the slice, the b-th built at time tbs[b]
RECURSIVE CreateInBatches(_, _, _, _, _)
CreateInBatches(tbl, ms, size, tbs, b) ==
    IF b > NumBatches(Len(ms), size) THEN tbl
    ELSE CreateInBatches(Create(tbl, BatchOf(ms, size, b), tbs[b]), ms, size, tbs, b + 1)

\* Repository.BulkUpsert, the table after a call that returns nil: every model
\* gets UpdatedAt = the time taken at entry (ts); the models go to the
\* database in batches of BatchSize, one statement each, within one
\* transaction; a call with a statement the database refuses leaves the table
\* alone
BulkUpsert(tbl, cs, ts, tbs) ==
    IF Refused(cs, BatchSize) THEN tbl ELSE
    CreateInBatches(tbl, [k \in DOMAIN cs |-> [pid |-> cs[k].pid, ext |-> cs[k].ext, ver |-> cs[k].ver, updated |-> ts]],
                    BatchSize, tbs, 1)

\* ------------------------------------------- SyncService.syncProvider

\* what a provider's Fetch can do: fail, return no item, return its feed
FetchOutcomes == {"fetchErr", "empty", "items"}

ShouldUpsert_Always(cs) == TRUE

\* if len(contents) > 0 { s.repo.BulkUpsert(ctx, contents) }
ShouldUpsert(cs) == Len(cs) > 0

Settle_InCompletionOrder(res, idx, r, done) == [res EXCEPT ![Len(done) + 1] = r]

\* results[idx] = s.syncProvider(ctx, p)
Settle(res, idx, r, done) == [res EXCEPT ![idx] = r]

WaitAll_First(g) == \E idx \in DOMAIN g : g[idx] = "done"

\* wg.Wait(): every goroutine has called wg.Done()
WaitAll(g) == \A idx \in DOMAIN g : g[idx] = "done"

NoError(res) == \A k \in DOMAIN res : res[k].Error = "nil"

\* SyncAll: results := make([]SyncResult, len(s.providers)), and one goroutine
\* per provider, each entering syncProvider with its Fetch
Spawned == [NoJob EXCEPT !.gor = [idx \in DOMAIN ProviderList |-> "fetch"]]

\* syncProvider of goroutine idx of the SyncAll j, at time t: Fetch returns;
\* on an error the result carries it, on an empty slice the count is 0,
\* otherwise BulkUpsert takes its timestamp and sends its statement
AfterFetch(j, idx, out, t) ==
    LET p == ProviderList[idx]
        cs == IF out = "items" THEN Fetched(p) ELSE <<>>
    IN
    IF out = "fetchErr"
    THEN [j EXCEPT !.gor[idx] = "done",
                   !.results[idx] = [Provider |-> p, Count |-> 0, Error |-> "fetch"]]
    ELSE IF ~ShouldUpsert(cs)
    THEN [j EXCEPT !.gor[idx] = "done",
                   !.results[idx] = [Provider |-> p, Count |-> Len(cs), Error |-> "nil"]]
    ELSE [j EXCEPT !.gor[idx] = "stmt", !.contents[idx] = cs, !.stamp[idx] = t]

\* syncProvider of goroutine idx of the SyncAll j: the statement of its
\* BulkUpsert has committed (ok) or failed; the goroutine stores its result
\* and ends, its batch and the timestamp of BulkUpsert are gone
AfterStatement(j, idx, ok) ==
    LET p == ProviderList[idx] IN
    [j EXCEPT !.gor[idx] = "done", !.contents[idx] = <<>>, !.stamp[idx] = 0,
              !.results[idx] = IF ok THEN [Provider |-> p, Count |-> Len(j.contents[idx]), Error |-> "nil"]
                               ELSE [Provider |-> p, Count |-> 0, Error |-> "upsert"]]

\* ------------------------------------------------- SyncScheduler, the driver

\* SyncScheduler.Start: creates s.ctx, s.wg.Add(1), and spawns the driver; the
\* first scheduler is started at time 0 and the others at every phase of its
\* ticker after it
Start(i) ==
    /\ mainPc[i] = "init"
    /\ now <= MaxStartTime
    /\ now < cfg.interval
    /\ now = 0 \/ \E j \in Inst : mainPc[j] # "init"
    /\ mainPc' = [mainPc EXCEPT ![i] = "running"]
    /\ wg' = [wg EXCEPT ![i] = @ + 1]
    /\ pc' = [pc EXCEPT ![i] = IF cfg.onStartup THEN "startup" ELSE "waiting"]
    /\ tickerStart' = [tickerStart EXCEPT ![i] = IF cfg.onStartup THEN NoTicker ELSE now]
    /\ undisturbed' = (undisturbed /\ now = 0)
    /\ UNCHANGED <<now, lockVars, cfg, cancelled, tickReady, syncCtx, job, syncCount, allOk>>
    /\ UNCHANGED appVars

TickDue_Concurrent(i) == pc[i] = "startup" \/ (DriverLoops(i) /\ tickReady[i])

\* run: executeSync is called by the driver itself, before its loop when
\* runOnStartup, and from the select of the loop when ticker.C delivers
TickDue(i) == pc[i] = "startup" \/ (pc[i] = "waiting" /\ tickReady[i])

\* executeSync up to the backend's answer to Acquire: run enters it on startup,
\* or from the select when ticker.C delivers (the select may take the tick even
\* when s.ctx.Done() is ready too); Acquire is called with s.ctx and the
\* interval as TTL, and its SET NX takes effect
ExecBegin(i) ==
    /\ TickDue(i)
    /\ \E fail \in BOOLEAN, seeExpired \in Races(redis, LockKey, now) :
        LET ttl == LockTTL(cfg.interval)
            a == Acquire(redis, mutexes, i, LockKey, ttl, now, AcquireCtxDone(i), fail, seeExpired)
            call == AcquireCall(redis, mutexes, i, LockKey, now, seeExpired, a, lastHold)
        IN  /\ InOrder(redis, seeExpired)
            /\ redis' = a.redis
            /\ lastHold' = HoldAfterAcquire(lastHold, i, LockKey, now, ttl, a)
            /\ pend' = pend \cup {InFlight(i, "acquire", IF a.acquired THEN a.mutexes[i][LockKey] ELSE NoTok,
                                            call, now)}
    /\ pc' = [pc EXCEPT ![i] = "acquire"]
    /\ tickReady' = [tickReady EXCEPT ![i] = FALSE]
    /\ lastCall' = NoCall
    /\ UNCHANGED <<now, mutexes, cfg, mainPc, cancelled, wg, tickerStart, syncCtx, job, histVars>>
    /\ UNCHANGED appVars

\* executeSync, Acquire returns: a lock that was got is stored in the table;
\* after (true, nil) SyncAll is called under the sync context and spawns its
\* goroutines, after an error or false executeSync returns to run
AcquireReturn(i) ==
    /\ Acquiring(i)
    /\ \E c \in FlightOf(i) :
        LET a == [acquired |-> c.call.ok, err |-> c.call.err] IN
        /\ pend' = pend \ {c}
        /\ mutexes' = IF a.acquired THEN [mutexes EXCEPT ![i][LockKey] = c.tok] ELSE mutexes
        /\ lastCall' = [c.call EXCEPT !.ctxGone = cancelled[i]]
        /\ undisturbed' = (undisturbed /\ a.err = "nil")
        /\ IF Proceed(a)
           THEN /\ pc' = [pc EXCEPT ![i] = "syncing"]
                /\ syncCtx' = [syncCtx EXCEPT ![i] = SyncContext(now, cfg.timeout)]
                /\ job' = [job EXCEPT ![i] = Spawned]
                /\ syncCount' = IF allOk /\ now < 3 * cfg.interval THEN syncCount + 1 ELSE syncCount
                /\ UNCHANGED tickerStart
           ELSE /\ AfterExec(i)
                /\ UNCHANGED <<syncCount, job>>
    /\ UNCHANGED <<now, redis, lastHold, cfg, mainPc, cancelled, wg, tickReady, allOk>>
    /\ UNCHANGED appVars

\* a goroutine of the SyncAll of instance i's tick: provider.Fetch returns
TickFetched(i, idx) ==
    /\ Syncing(i)
    /\ job[i].gor[idx] = "fetch"
    /\ \E out \in FetchOutcomes :
        job' = [job EXCEPT ![i] = AfterFetch(job[i], idx, out, now)]
    /\ lastCall' = NoCall
    /\ UNCHANGED <<now, redis, mutexes, lastHold, pend, cfg, mainPc, pc, cancelled, wg, tickerStart, tickReady, syncCtx, histVars>>
    /\ UNCHANGED appVars

\* a goroutine of the SyncAll of instance i's tick: the statement of its
\* BulkUpsert commits, or fails and leaves the table as it was
TickUpserted(i, idx) ==
    /\ Syncing(i)
    /\ job[i].gor[idx] = "stmt"
    /\ \E ok \in StatementOutcomes(job[i].contents[idx]),
          tbs \in BatchBuildTimes(job[i].contents[idx], job[i].stamp[idx], now) :
        /\ rows' = IF ok THEN BulkUpsert(rows, job[i].contents[idx], job[i].stamp[idx], tbs) ELSE rows
        /\ job' = [job EXCEPT ![i] = AfterStatement(job[i], idx, ok)]
    /\ lastCall' = NoCall
    /\ UNCHANGED <<now, redis, mutexes, lastHold, pend, cfg, mainPc, pc, cancelled, wg, tickerStart, tickReady, syncCtx, histVars>>
    /\ UNCHANGED <<syncVars, upVars, searchVars, extVars>>

\* wg.Wait() of SyncAll is over and the results are returned; executeSync
\* analyses them: with an error among them it goes on to Release, without one
\* it returns to run and leaves the key to its TTL
SyncAllReturn(i) ==
    /\ Syncing(i)
    /\ WaitAll(job[i].gor)
    /\ LET res  == [p \in Providers |->
                        \E idx \in DOMAIN ProviderList :
                            /\ ProviderList[idx] = p
                            /\ job[i].results[idx].Error # "nil"]
       IN  /\ allOk' = (allOk /\ ~HasError(res))
           /\ syncCount' = IF HasError(res) THEN 0 ELSE syncCount
           /\ undisturbed' = (undisturbed /\ ~HasError(res))
           /\ lastHold' = IF ~HasError(res) /\ lastHold.inst = i
                          THEN [lastHold EXCEPT !.cool = TRUE] ELSE lastHold
           /\ IF ShouldRelease(res)
              THEN /\ pc' = [pc EXCEPT ![i] = "release"]
                   /\ UNCHANGED <<tickerStart, syncCtx>>
              ELSE AfterExec(i)
    /\ job' = [job EXCEPT ![i] = NoJob]
    /\ lastCall' = NoCall
    /\ UNCHANGED <<now, redis, mutexes, pend, cfg, mainPc, cancelled, wg, tickReady>>
    /\ UNCHANGED appVars

\* executeSync after a SyncAll with an error: s.locker.Release(s.ctx, lockKey)
\* is called and takes the mutex out of the table under r.mu; without an entry
\* it returns nil at once
ExecRelease(i) ==
    /\ Releasing(i)
    /\ IF mutexes[i][LockKey] = NoTok
       THEN LET rel == Release(redis, mutexes, i, LockKey, now, cancelled[i], FALSE, FALSE) IN
            /\ lastCall' = [ReleaseCall(redis, mutexes, i, LockKey, now, FALSE, rel, lastHold)
                                EXCEPT !.ctxGone = cancelled[i]]
            /\ AfterExec(i)
            /\ UNCHANGED <<mutexes, pend>>
       ELSE /\ mutexes' = [mutexes EXCEPT ![i][LockKey] = NoTok]
            /\ pend' = pend \cup {InFlight(i, "unlock", mutexes[i][LockKey], NoCall, now)}
            /\ pc' = [pc EXCEPT ![i] = "unlock"]
            /\ lastCall' = NoCall
            /\ UNCHANGED <<tickerStart, syncCtx>>
    /\ UNCHANGED <<now, redis, lastHold, cfg, mainPc, cancelled, wg, tickReady, job, histVars>>
    /\ UNCHANGED appVars

\* Release: mutex.UnlockContext(s.ctx) on the mutex taken out; the unlock
\* script takes effect, unless the context is done or the backend unreachable
ExecUnlock(i) ==
    /\ Unlocking(i)
    /\ \E c \in FlightOf(i), fail \in BOOLEAN, seeExpired \in Races(redis, LockKey, now) :
        LET was == TableBefore(mutexes, c)
            rel == Release(redis, was, i, LockKey, now, cancelled[i], fail, seeExpired)
        IN  /\ InOrder(redis, seeExpired)
            /\ redis' = rel.redis
            /\ lastHold' = HoldAfterRelease(lastHold, LockKey, rel)
            /\ pend' = (pend \ {c}) \cup
                        {InFlight(i, "release", NoTok,
                                  ReleaseCall(redis, was, i, LockKey, now, seeExpired, rel, lastHold), now)}
    /\ pc' = [pc EXCEPT ![i] = "return"]
    /\ lastCall' = NoCall
    /\ UNCHANGED <<now, mutexes, cfg, mainPc, cancelled, wg, tickerStart, tickReady, syncCtx, job, histVars>>
    /\ UNCHANGED appVars

\* Release returns, its error is only logged, and executeSync returns to run
ReleaseReturn(i) ==
    /\ Returning(i)
    /\ \E c \in FlightOf(i) :
        /\ pend' = pend \ {c}
        /\ lastCall' = [c.call EXCEPT !.ctxGone = cancelled[i]]
    /\ AfterExec(i)
    /\ UNCHANGED <<now, redis, mutexes, lastHold, cfg, mainPc, cancelled, wg, tickReady, job, histVars>>
    /\ UNCHANGED appVars

\* run: case <-s.ctx.Done(): return (deferred ticker.Stop and wg.Done)
RunExit(i) ==
    /\ pc[i] = "waiting"
    /\ cancelled[i]
    /\ pc' = [pc EXCEPT ![i] = "exited"]
    /\ tickReady' = [tickReady EXCEPT ![i] = FALSE]
    /\ tickerStart' = [tickerStart EXCEPT ![i] = NoTicker]
    /\ wg' = [wg EXCEPT ![i] = @ - 1]
    /\ UNCHANGED <<now, lockVars, cfg, mainPc, cancelled, syncCtx, job, histVars>>
    /\ UNCHANGED appVars

\* SyncScheduler.Stop: s.cancel(), then s.wg.Wait()
Stop(i) ==
    /\ mainPc[i] = "running"
    /\ mainPc' = [mainPc EXCEPT ![i] = "stopping"]
    /\ cancelled' = [cancelled EXCEPT ![i] = TRUE]
    /\ undisturbed' = FALSE
    /\ UNCHANGED <<now, lockVars, cfg, pc, wg, tickerStart, tickReady, syncCtx, job, syncCount, allOk>>
    /\ UNCHANGED appVars

WaitDone_NoJoin(i) == TRUE

\* s.wg.Wait() returns when the counter is zero
WaitDone(i) == wg[i] = 0

\* Stop returns once wg.Wait() observes the driver's wg.Done()
StopReturn(i) ==
    /\ mainPc[i] = "stopping"
    /\ WaitDone(i)
    /\ mainPc' = [mainPc EXCEPT ![i] = "stopped"]
    /\ UNCHANGED <<now, lockVars, cfg, pc, cancelled, wg, tickerStart, tickReady, syncCtx, job, histVars>>
    /\ UNCHANGED appVars

\* a driver with a step to take takes it before the clock moves: a pending
\* startup run, a delivered tick, a closed Done channel, the return of a
\* SyncAll whose goroutines are done, the Release after it; the calls of a
\* SyncAll return as soon as its context is done; an answer of the backend
\* is back with the caller before the clock moves a second time
Prompt(i) ==
    \/ pc[i] = "startup"
    \/ pc[i] = "waiting" /\ (tickReady[i] \/ cancelled[i])
    \/ Syncing(i) /\ (WaitAll(job[i].gor) \/ CtxDone(syncCtx[i], i, now, cancelled))
    \/ Releasing(i)
    \/ Unlocking(i)
    \/ (Acquiring(i) \/ Returning(i)) /\ Overdue(i)

\* the ticker of instance i delivers at creation time + n * interval, n >= 1
TickerFires(i, t) ==
    /\ tickerStart[i] # NoTicker
    /\ t > tickerStart[i]
    /\ (t - tickerStart[i]) % cfg.interval = 0

\* the clock moves by one unit
Tick ==
    /\ \A i \in Inst : ~Prompt(i)
    /\ now' = now + 1
    /\ redis' = ExpireKeys(redis, now + 1)
    /\ tickReady' = [i \in Inst |-> tickReady[i] \/ TickerFires(i, now + 1)]
    /\ lastCall' = NoCall
    /\ UNCHANGED <<mutexes, lastHold, pend, cfg, mainPc, pc, cancelled, wg, tickerStart, syncCtx, job, histVars>>
    /\ UNCHANGED appVars

AdvanceTime == now < MaxTime /\ Tick

\* the clock of the schedulers
SchedTick == now < MaxSchedTime /\ Tick

Next ==
    \/ \E i \in Inst : Start(i)
    \/ \E i \in Inst : ExecBegin(i)
    \/ \E i \in Inst : AcquireReturn(i)
    \/ \E i \in Inst, idx \in DOMAIN ProviderList : TickFetched(i, idx)
    \/ \E i \in Inst, idx \in DOMAIN ProviderList : TickUpserted(i, idx)
    \/ \E i \in Inst : SyncAllReturn(i)
    \/ \E i \in Inst : ExecRelease(i)
    \/ \E i \in Inst : ExecUnlock(i)
    \/ \E i \in Inst : ReleaseReturn(i)
    \/ \E i \in Inst : RunExit(i)
    \/ \E i \in Stoppers : Stop(i)
    \/ \E i \in Inst : StopReturn(i)
    \/ SchedTick

Spec == Init /\ [][Next]_vars

\* ----------------------------------- the schedulers while every sync succeeds

\* no call fails at the transport, no provider result carries an error,
\* nobody calls Stop, and the backend's answers are back within the clock unit
NextSteady ==
    \/ \E i \in Inst : Start(i)
    \/ \E i \in Inst : ExecBegin(i) /\ (\A c \in pend' : c.call.err = "nil")
    \/ \E i \in Inst : AcquireReturn(i)
    \/ \E i \in Inst, idx \in DOMAIN ProviderList : TickFetched(i, idx) /\ NoError(job'[i].results)
    \/ \E i \in Inst, idx \in DOMAIN ProviderList : TickUpserted(i, idx) /\ NoError(job'[i].results)
    \/ \E i \in Inst : SyncAllReturn(i)
    \/ now < MaxSteadyTime /\ pend = {} /\ Tick

\* a timeout below the interval
InitSteady == Init /\ cfg.timeout < cfg.interval

SpecSteady == InitSteady /\ [][NextSteady]_vars

\* ------------------------------------------- direct callers of the locker

\* sync.interval, sync.timeout and sync.on_startup as setDefaults leaves them:
\* 5m, 30s, true
LockerConfig == [interval |-> 2, timeout |-> 1, onStartup |-> TRUE]

InitLocker == Init /\ cfg = LockerConfig

\* a pending call: Acquire holds the value it set and has yet to store its mutex
\* (with what it will return), Release has taken its mutex out of the table and
\* has yet to unlock it
StorePending(i, k, tok, call) == [op |-> "store", inst |-> i, key |-> k, tok |-> tok, call |-> call]

UnlockPending(i, k, tok) == [op |-> "unlock", inst |-> i, key |-> k, tok |-> tok, call |-> NoCall]

\* Acquire of locker i: mutex.LockContext; a call that did not get the lock
\* returns, one that got it stores the mutex under r.mu, at once or after other
\* calls have run
LAcquire(i, k) ==
    \E ttl \in TTLs, tr \in Transport, seeExpired \in Races(redis, k, now), late \in BOOLEAN :
        LET a    == Acquire(redis, mutexes, i, k, ttl, now, tr[1], tr[2], seeExpired)
            call == AcquireCall(redis, mutexes, i, k, now, seeExpired, a, lastHold)
        IN  /\ redis' = a.redis
            /\ lastHold' = HoldAfterAcquire(lastHold, i, k, now, ttl, a)
            /\ IF late
               THEN /\ a.acquired
                    /\ Cardinality(pend) < MaxPending
                    /\ pend' = pend \cup {StorePending(i, k, a.mutexes[i][k], call)}
                    /\ lastCall' = NoCall
                    /\ UNCHANGED mutexes
               ELSE /\ mutexes' = a.mutexes
                    /\ lastCall' = call
                    /\ UNCHANGED pend
            /\ UNCHANGED <<now, schedVars, histVars>>
            /\ UNCHANGED appVars

\* Acquire: r.mutexes[key] = mutex, and the return of (true, nil)
LStore(c) ==
    /\ c.op = "store"
    /\ mutexes' = [mutexes EXCEPT ![c.inst][c.key] = c.tok]
    /\ lastCall' = c.call
    /\ pend' = pend \ {c}
    /\ UNCHANGED <<now, redis, lastHold, schedVars, histVars>>
    /\ UNCHANGED appVars

\* Release of locker i: the entry is read and deleted under r.mu; a call that
\* found none returns nil, one that found a mutex unlocks it, at once or after
\* other calls have run
LRelease(i, k) ==
    \E tr \in Transport, seeExpired \in Races(redis, k, now), late \in BOOLEAN :
        LET rel == Release(redis, mutexes, i, k, now, tr[1], tr[2], seeExpired) IN
        /\ IF late
           THEN /\ mutexes[i][k] # NoTok
                /\ Cardinality(pend) < MaxPending
                /\ tr = <<FALSE, FALSE>>
                /\ ~seeExpired
                /\ mutexes' = [mutexes EXCEPT ![i][k] = NoTok]
                /\ pend' = pend \cup {UnlockPending(i, k, mutexes[i][k])}
                /\ lastCall' = NoCall
                /\ UNCHANGED <<redis, lastHold>>
           ELSE /\ redis' = rel.redis
                /\ mutexes' = rel.mutexes
                /\ lastCall' = ReleaseCall(redis, mutexes, i, k, now, seeExpired, rel, lastHold)
                /\ lastHold' = HoldAfterRelease(lastHold, k, rel)
                /\ UNCHANGED pend
        /\ UNCHANGED <<now, schedVars, histVars>>
        /\ UNCHANGED appVars

\* Release: mutex.UnlockContext on the mutex taken, and the return
LUnlock(c) ==
    /\ c.op = "unlock"
    /\ \E tr \in Transport, seeExpired \in Races(redis, c.key, now) :
        LET was == TableBefore(mutexes, c)
            rel == Release(redis, was, c.inst, c.key, now, tr[1], tr[2], seeExpired)
        IN  /\ redis' = rel.redis
            /\ lastCall' = ReleaseCall(redis, was, c.inst, c.key, now, seeExpired, rel, lastHold)
            /\ lastHold' = HoldAfterRelease(lastHold, c.key, rel)
    /\ pend' = pend \ {c}
    /\ UNCHANGED <<now, mutexes, schedVars, histVars>>
    /\ UNCHANGED appVars

NextLocker ==
    \/ \E i \in Lockers, k \in Keys : LAcquire(i, k)
    \/ \E i \in Lockers, k \in Keys : LRelease(i, k)
    \/ \E c \in pend : LStore(c)
    \/ \E c \in pend : LUnlock(c)
    \/ AdvanceTime

SpecLocker == InitLocker /\ [][NextLocker]_vars

\* ------------------------------------------- the clock of the services

\* time passes; cache entries whose expiry lies before the new time are gone
AppTick ==
    /\ now < MaxAppTime
    /\ now' = now + 1
    /\ cache' = [k \in CacheKeys |-> IF cache[k].kind \notin {"none", "expired"} /\ cache[k].exp < now + 1
                                      THEN Expired ELSE cache[k]]
    /\ lastSearch' = NoSearch
    /\ UNCHANGED <<lockVars, schedVars, histVars, rows, syncVars, upVars, cacheOn, sr, keyCalls, extVars>>


\* ---------------------------------------------------------- SyncService

\* every provider's Fetch of this run returned the whole feed
StableFeed(b) == \A idx \in DOMAIN ProviderList : b[idx].contents = Fetched(ProviderList[idx])

\* a call into the service begins: syncProvider is about to run for the
\* providers idxs, the others are not synced by this call
Enter(idxs) ==
    /\ syncPc' = "running"
    /\ gor' = [idx \in DOMAIN ProviderList |-> IF idx \in idxs THEN "fetch" ELSE "none"]
    /\ results' = [idx \in DOMAIN ProviderList |-> ZeroResult]
    /\ stamp' = [idx \in DOMAIN ProviderList |-> 0]
    /\ settled' = <<>>
    /\ outcome' = [idx \in DOMAIN ProviderList |-> "none"]
    /\ batch' = [idx \in DOMAIN ProviderList |-> NoBatch]
    /\ prevRows' = rows
    /\ prevOk' = (runs > 0 /\ NoError(ret) /\ StableFeed(batch))
    /\ UNCHANGED <<rows, runs, ret, upVars>>

\* a call into the service has returned to a handler: its goroutines and its
\* results are gone
Leave ==
    /\ syncPc' = "idle"
    /\ gor' = [idx \in DOMAIN ProviderList |-> "none"]
    /\ results' = [idx \in DOMAIN ProviderList |-> ZeroResult]
    /\ stamp' = [idx \in DOMAIN ProviderList |-> 0]
    /\ settled' = <<>>
    /\ outcome' = [idx \in DOMAIN ProviderList |-> "none"]
    /\ batch' = [idx \in DOMAIN ProviderList |-> NoBatch]
    /\ prevRows' = {}
    /\ prevOk' = FALSE
    /\ UNCHANGED <<rows, runs, ret, upVars>>

\* SyncAll: allocates the results, spawns one goroutine per provider
SyncAllBegin ==
    /\ syncPc = "idle"
    /\ runs < MaxRuns
    /\ Enter(DOMAIN ProviderList)
    /\ UNCHANGED <<now, lockVars, schedVars, histVars, searchVars, extVars>>

\* syncProvider: provider.Fetch returns; on an error the result carries it, on
\* an empty slice the count is 0, otherwise BulkUpsert takes its timestamp
ProviderFetched(idx) ==
    /\ gor[idx] = "fetch"
    /\ \E out \in FetchOutcomes :
        LET p == ProviderList[idx]
            cs == IF out = "items" THEN Fetched(p) ELSE <<>>
        IN
        IF out = "fetchErr"
        THEN /\ results' = Settle(results, idx, [Provider |-> p, Count |-> 0, Error |-> "fetch"], settled)
             /\ gor' = [gor EXCEPT ![idx] = "done"]
             /\ settled' = Append(settled, idx)
             /\ outcome' = [outcome EXCEPT ![idx] = "fetchErr"]
             /\ UNCHANGED <<stamp, batch>>
        ELSE IF ~ShouldUpsert(cs)
        THEN /\ results' = Settle(results, idx, [Provider |-> p, Count |-> Len(cs), Error |-> "nil"], settled)
             /\ gor' = [gor EXCEPT ![idx] = "done"]
             /\ settled' = Append(settled, idx)
             /\ outcome' = [outcome EXCEPT ![idx] = "ok"]
             /\ batch' = [batch EXCEPT ![idx] = [contents |-> cs, called |-> FALSE]]
             /\ UNCHANGED stamp
        ELSE /\ gor' = [gor EXCEPT ![idx] = "stmt"]
             /\ stamp' = [stamp EXCEPT ![idx] = now]
             /\ batch' = [batch EXCEPT ![idx] = [contents |-> cs, called |-> TRUE]]
             /\ UNCHANGED <<results, settled, outcome>>
    /\ lastSearch' = NoSearch
    /\ UNCHANGED <<rows, syncPc, runs, ret, prevRows, prevOk, upVars>>
    /\ UNCHANGED <<now, lockVars, schedVars, histVars, cacheOn, cache, sr, keyCalls, extVars>>

\* syncProvider: the statement of BulkUpsert commits or fails; the result is
\* stored in the goroutine's slot
BulkUpsertDone(idx) ==
    /\ gor[idx] = "stmt"
    /\ \E ok \in StatementOutcomes(batch[idx].contents),
          tbs \in BatchBuildTimes(batch[idx].contents, stamp[idx], now) :
        LET p == ProviderList[idx]
            cs == batch[idx].contents
        IN
        IF ok
        THEN /\ rows' = BulkUpsert(rows, cs, stamp[idx], tbs)
             /\ results' = Settle(results, idx, [Provider |-> p, Count |-> Len(cs), Error |-> "nil"], settled)
             /\ outcome' = [outcome EXCEPT ![idx] = "ok"]
        ELSE /\ rows' = rows
             /\ results' = Settle(results, idx, [Provider |-> p, Count |-> 0, Error |-> "upsert"], settled)
             /\ outcome' = [outcome EXCEPT ![idx] = "upsertErr"]
    /\ gor' = [gor EXCEPT ![idx] = "done"]
    /\ settled' = Append(settled, idx)
    /\ lastSearch' = NoSearch
    /\ UNCHANGED <<syncPc, runs, stamp, ret, prevRows, prevOk, batch, upVars>>
    /\ UNCHANGED <<now, lockVars, schedVars, histVars, cacheOn, cache, sr, keyCalls, extVars>>

\* SyncAll: wg.Wait() is over, the results are returned
SyncAllEnd ==
    /\ syncPc = "running"
    /\ WaitAll(gor)
    /\ syncPc' = "idle"
    /\ runs' = runs + 1
    /\ ret' = results
    /\ UNCHANGED <<rows, gor, stamp, results, settled, outcome, prevRows, prevOk, batch, upVars>>
    /\ UNCHANGED <<now, lockVars, schedVars, histVars, searchVars, extVars>>

NextSync ==
    \/ SyncAllBegin
    \/ \E idx \in DOMAIN ProviderList : ProviderFetched(idx)
    \/ \E idx \in DOMAIN ProviderList : BulkUpsertDone(idx)
    \/ SyncAllEnd
    \/ AppTick

SpecSync == InitLocker /\ [][NextSync]_vars

\* ------------------------------------- manual syncs (the admin endpoints)

FindProvider_FirstAsDefault(name) == IF name \in Providers THEN <<name>> ELSE <<ProviderList[1]>>

\* SyncProvider: the loop over s.providers, <<>> when no name matches
FindProvider(name) == IF name \in Providers THEN <<name>> ELSE <<>>

ManualSyncLock_Acquire(r, t) == [r EXCEPT ![LockKey] = [val |-> Cardinality(Lockers) + 2, exp |-> t + 1]]

\* AdminHandler and SyncService hold no locker: the backend key after a manual
\* sync has started is the key before it
ManualSyncLock(r, t) == r

\* the providers a manual sync runs syncProvider for
Synced(op, name) ==
    IF op = "SyncAll" THEN DOMAIN ProviderList
    ELSE {idx \in DOMAIN ProviderList : FindProvider(name) # <<>> /\ ProviderList[idx] = FindProvider(name)[1]}

\* AdminHandler.SyncAll / SyncProvider up to the first Fetch of the service
AdminBegin(op, name) ==
    /\ adm.pc = "idle"
    /\ ~adm.done
    /\ syncPc = "idle"
    /\ adm' = [NoAdmin EXCEPT !.pc = "running", !.op = op, !.name = name]
    /\ Enter(Synced(op, name))
    /\ redis' = ManualSyncLock(redis, now)
    /\ lastSearch' = NoSearch
    /\ UNCHANGED <<mutexes, lastHold, lastCall, pend>>
    /\ UNCHANGED <<now, schedVars, histVars>>
    /\ UNCHANGED <<cacheOn, cache, sr, keyCalls, fetchVars, queryVars, scoreVars, storeVars>>

\* SyncService.SyncProvider returns &result and result.Error of the provider
\* it synced, (nil, nil) when it synced none; the handler answers
AdminSyncProviderReturn ==
    /\ adm.pc = "running"
    /\ adm.op = "SyncProvider"
    /\ \A idx \in DOMAIN ProviderList : gor[idx] \in {"none", "done"}
    /\ LET done == {idx \in DOMAIN ProviderList : gor[idx] = "done"} IN
        IF done = {}
        THEN adm' = [adm EXCEPT !.pc = "idle", !.done = TRUE, !.status = 404]
        ELSE LET r == results[CHOOSE idx \in done : TRUE] IN
             adm' = [adm EXCEPT !.pc = "idle", !.done = TRUE, !.result = <<r>>, !.err = r.Error,
                                !.status = IF r.Error # "nil" THEN 500 ELSE 200]
    /\ Leave
    /\ lastSearch' = NoSearch
    /\ UNCHANGED <<now, lockVars, schedVars, histVars>>
    /\ UNCHANGED <<cacheOn, cache, sr, keyCalls, fetchVars, queryVars, scoreVars, storeVars>>

\* SyncService.SyncAll called by the handler returns after wg.Wait(); the
\* handler answers with the results, in provider order
AdminSyncAllReturn ==
    /\ adm.pc = "running"
    /\ adm.op = "SyncAll"
    /\ WaitAll(gor)
    /\ adm' = [adm EXCEPT !.pc = "idle", !.done = TRUE, !.result = results, !.status = 200]
    /\ Leave
    /\ lastSearch' = NoSearch
    /\ UNCHANGED <<now, lockVars, schedVars, histVars>>
    /\ UNCHANGED <<cacheOn, cache, sr, keyCalls, fetchVars, queryVars, scoreVars, storeVars>>


\* ------------------------------------------- direct callers of Upsert

\* the contents the callers upsert: one key in two payload versions, and another key
UpsertContents ==
    {[pid |-> "provider_a", ext |-> 1, ver |-> 1], [pid |-> "provider_a", ext |-> 1, ver |-> 2],
     [pid |-> "provider_a", ext |-> 2, ver |-> 1]}

\* Repository.Upsert up to the statement: the model is built from the content
\* and model.UpdatedAt = time.Now().UTC() is taken
UpsertBegin(u) ==
    /\ upPc[u] = "idle"
    /\ upCount[u] < MaxUpserts
    /\ \E c \in UpsertContents :
        upArg' = [upArg EXCEPT ![u] = [pid |-> c.pid, ext |-> c.ext, ver |-> c.ver, updated |-> now]]
    /\ upPc' = [upPc EXCEPT ![u] = "stmt"]
    /\ upCount' = [upCount EXCEPT ![u] = @ + 1]
    /\ UNCHANGED <<rows, syncVars>>
    /\ UNCHANGED <<now, lockVars, schedVars, histVars, searchVars, extVars>>

\* Repository.Upsert: the INSERT ... ON CONFLICT statement commits, or fails
\* and leaves the table as it was
UpsertDone(u) ==
    /\ upPc[u] = "stmt"
    /\ \E ok \in BOOLEAN, tb \in BuildTimes(upArg[u].updated, now) :
        rows' = IF ok THEN UpsertRow(rows, upArg[u], tb) ELSE rows
    /\ upPc' = [upPc EXCEPT ![u] = "idle"]
    /\ upArg' = [upArg EXCEPT ![u] = NoArg]
    /\ UNCHANGED <<upCount, syncVars>>
    /\ UNCHANGED <<now, lockVars, schedVars, histVars, searchVars, extVars>>

NextUpsert ==
    \/ \E u \in Upserters : UpsertBegin(u)
    \/ \E u \in Upserters : UpsertDone(u)
    \/ AppTick

SpecUpsert == InitLocker /\ [][NextUpsert]_vars

\* ------------------------------------------------------ Repository.Search

\* the columns of a row that come with its payload: type, score
TypeOf(r) == IF r.ext = 1 THEN "video" ELSE "article"

ScoreOf(r) == IF r.pid = "provider_b" THEN 2 * r.ver ELSE IF r.ext = 1 THEN 3 * r.ver ELSE r.ver

\* title, tags and published_at come with the payload too; title and tags as
\* the lexemes to_tsvector('english', ...) keeps, each at one position
TitleOf(r) == IF r.pid = "provider_a" /\ r.ext = 1 THEN {"go"} ELSE {"rust"}

TagsOf(r) == IF r.pid = "provider_b" THEN {"go"} ELSE {}

PublishedOf(r) == IF r.pid = "provider_b" THEN 2 ELSE r.ext

\* websearch_to_tsquery('english', q) for the queries of the model: a word, a
\* negated word ("-word"), or an OR of words; the operands are the query's words
ToTsQuery(q) ==
    CASE q = "go"         -> [op |-> "val", words |-> {"go"}]
      [] q = "rust"       -> [op |-> "val", words |-> {"rust"}]
      [] q = "-go"        -> [op |-> "not", words |-> {"go"}]
      [] q = "go OR rust" -> [op |-> "or",  words |-> {"go", "rust"}]
      [] OTHER            -> [op |-> "or",  words |-> {}]

\* search_vector: setweight(title, 'A') || setweight(tags, 'B')
SearchVector(r) == [A |-> TitleOf(r), B |-> TagsOf(r)]

HasWord(r, w) == w \in SearchVector(r).A \cup SearchVector(r).B

\* search_vector @@ tsquery
TsMatch(r, q) ==
    LET t == ToTsQuery(q)
    IN  IF t.op = "not" THEN \A w \in t.words : ~HasWord(r, w)
        ELSE \E w \in t.words : HasWord(r, w)

\* ts_rank's share of one operand, in thousandths: the weights of its positions
\* (A = 1.0, B = 0.4), the second position at a quarter, over pi^2/6
WordRank(r, w) ==
    LET v == SearchVector(r)
    IN  IF w \in v.A /\ w \in v.B THEN 669
        ELSE IF w \in v.A THEN 608
        ELSE IF w \in v.B THEN 243
        ELSE 0

RECURSIVE SumRank(_, _)
SumRank(r, ws) ==
    IF ws = {} THEN 0
    ELSE LET w == CHOOSE x \in ws : TRUE IN WordRank(r, w) + SumRank(r, ws \ {w})

\* ts_rank(search_vector, tsquery), in thousandths: the operands found in the
\* vector are summed, negated ones included, and divided by the operand count
TsRank(r, q) ==
    LET t == ToTsQuery(q)
    IN  IF t.words = {} THEN 0 ELSE SumRank(r, t.words) \div Cardinality(t.words)

\* log_score_cached = LOG(score + 10), in thousandths, for the scores of the feed
LogScore(sc) ==
    CASE sc = 0 -> 1000 [] sc = 1 -> 1041 [] sc = 2 -> 1079 [] sc = 3 -> 1113
      [] sc = 4 -> 1146 [] sc = 5 -> 1176 [] sc = 6 -> 1204 [] OTHER -> 1230

SortKey_NoFallback(r, p) ==
    CASE p.SortBy = "relevance"    -> TsRank(r, p.Query) * LogScore(ScoreOf(r))
      [] p.SortBy = "published_at" -> PublishedOf(r)
      [] p.SortBy = "score"        -> ScoreOf(r)
      [] OTHER                     -> r.id

\* applyOrdering: the ORDER BY expression
SortKey(r, p) ==
    CASE p.SortBy = "relevance" /\ p.Query # "" -> TsRank(r, p.Query) * LogScore(ScoreOf(r))
      [] p.SortBy = "published_at"              -> PublishedOf(r)
      [] OTHER                                  -> ScoreOf(r)

\* buildSearchQuery: the text filter for a non-empty query, the type filter
\* for a non-empty type
Matching(tbl, p) ==
    {r \in tbl : /\ p.Query = "" \/ TsMatch(r, p.Query)
                 /\ p.Type = "" \/ TypeOf(r) = p.Type}

\* applyOrdering: r's key comes strictly before q's in the direction asked for
KeyBefore(r, q, p) ==
    IF p.SortOrder = "asc" THEN SortKey(r, p) < SortKey(q, p) ELSE SortKey(r, p) > SortKey(q, p)

\* every order the statement may return: ORDER BY names one expression, so
\* rows with equal keys come in any order
Orderings(S, p) ==
    {o \in [1..Cardinality(S) -> S] :
        /\ \A i, j \in 1..Cardinality(S) : i # j => o[i] # o[j]
        /\ \A i, j \in 1..Cardinality(S) : i < j => ~KeyBefore(o[j], o[i], p)}

Offset(p) == (p.Page - 1) * p.PageSize

Limit(p) == p.PageSize

\* OFFSET / LIMIT
PageOf_NoLimit(seq, p) ==
    IF Offset(p) + 1 > Len(seq) THEN <<>> ELSE SubSeq(seq, Offset(p) + 1, Len(seq))

PageOf(seq, p) ==
    LET from == Offset(p) + 1
        to   == IF Offset(p) + Limit(p) < Len(seq) THEN Offset(p) + Limit(p) ELSE Len(seq)
    IN  IF from > to THEN <<>> ELSE SubSeq(seq, from, to)

\* NewSearchResult: total pages rounded up
NewSearchResult(contents, total, p) ==
    [Contents |-> contents, Total |-> total, Page |-> p.Page, PageSize |-> p.PageSize,
     TotalPages |-> (total \div p.PageSize) + (IF total % p.PageSize > 0 THEN 1 ELSE 0)]

\* Repository.Search, first statement: query.Count(&total) on table tbl
RepoCount(tbl, p) == Cardinality(Matching(tbl, p))

\* Repository.Search, second statement: the pages Find may return on table
\* tbl, one per order of the matches
RepoFind(tbl, p) == {PageOf(o, p) : o \in Orderings(Matching(tbl, p), p)}

\* the results Repository.Search may return when both statements succeed and
\* run on the same table tbl
SearchResults(tbl, params) ==
    LET p == Validate(params)
    IN  {NewSearchResult(pg, RepoCount(tbl, p), p) : pg \in RepoFind(tbl, p)}

\* ------------------------------------------------------------ cache backend

\* an entry a Get can read
Stored(e) == e.kind \notin {"none", "expired"}

\* a Get that arrives in the clock unit of the entry's expiry may see it or not
CacheRaces(c, k, t) == IF Stored(c[k]) /\ c[k].exp = t THEN BOOLEAN ELSE {FALSE}

\* Cache.Get: (nil, nil) on an absent or expired key, (nil, err) on a backend error
CacheGet(c, k, t, fail, seeExpired) ==
    IF fail THEN [data |-> NoData, err |-> "redis"]
    ELSE IF Stored(c[k]) /\ (t < c[k].exp \/ (t = c[k].exp /\ ~seeExpired))
    THEN [data |-> [kind |-> c[k].kind, body |-> c[k].body], err |-> "nil"]
    ELSE [data |-> NoData, err |-> "nil"]

CacheSet_NoExpiry(c, k, data, ttl, t, fail) ==
    IF fail THEN [cache |-> c, err |-> "redis"]
    ELSE [cache |-> [c EXCEPT ![k] = [kind |-> data.kind, body |-> data.body, exp |-> t + ttl + MaxAppTime]],
          err |-> "nil"]

\* Cache.Set: SET key value with the TTL
CacheSet(c, k, data, ttl, t, fail) ==
    IF fail THEN [cache |-> c, err |-> "redis"]
    ELSE [cache |-> [c EXCEPT ![k] = [kind |-> data.kind, body |-> data.body, exp |-> t + ttl]],
          err |-> "nil"]

\* json.Marshal of a SearchResult
Marshal(res) == [kind |-> "json", body |-> res]

\* json.Unmarshal into a SearchResult: fails on bytes that are no JSON of it
Unmarshal(data) ==
    IF data.kind = "json" THEN [result |-> data.body, err |-> "nil"]
    ELSE [result |-> NoResult, err |-> "json"]

\* ----------------------------------------------------------- SearchService

CacheConfigured_Always(on) == TRUE

\* if s.cache != nil
CacheConfigured(on) == on

IsHit_Never(get, un) == FALSE

\* Search: err == nil && data != nil, and the bytes unmarshal
IsHit(get, un) == get.err = "nil" /\ get.data.kind # "none" /\ un.err = "nil"

SearchFailed_Never(repo) == FALSE

\* Search: if err != nil after s.repo.Search, the error is returned
SearchFailed(repo) == repo.err # "nil"

AfterSet_FailOnSetError(res, setErr) ==
    IF setErr # "nil" THEN [out |-> NoResult, err |-> setErr] ELSE [out |-> res, err |-> "nil"]

\* Search: a marshal or Set error is logged, the result is returned
AfterSet(res, setErr) == [out |-> res, err |-> "nil"]

\* the record of a Search call that returns from state c of the call
SearchRecord(c, repoCalls, repo, setKey, setErr, stored, ret2) ==
    [done |-> TRUE, raw |-> c.raw, arg |-> Validate(c.raw), getKey |-> c.getKey, setKey |-> setKey,
     ops |-> c.ops + (IF setKey # "" THEN 1 ELSE 0),
     getErr |-> c.getErr, unErr |-> c.unErr, setErr |-> setErr,
     hit |-> repoCalls = 0, seen |-> c.seen, lapsed |-> c.lapsed,
     repoCalls |-> repoCalls, counted |-> c.total, repoRes |-> repo.result, repoErr |-> repo.err,
     out |-> ret2.out, err |-> ret2.err, stored |-> stored]

\* Search up to the repository query: the params are clamped; with a cache the
\* key is built and Get is called; a hit returns the unmarshalled bytes
SearchGet(s) ==
    /\ sr[s].pc = "idle"
    /\ \E raw \in SearchInputs, fail \in BOOLEAN :
        LET key == SearchCacheKey(raw)
            k   == buildKey(key)
        IN  IF ~CacheConfigured(cacheOn)
            THEN /\ sr' = [sr EXCEPT ![s] = [NoSr EXCEPT !.pc = "count", !.raw = raw]]
                 /\ lastSearch' = NoSearch
            ELSE \E seeExpired \in CacheRaces(cache, k, now) :
                 LET get == CacheGet(cache, k, now, fail, seeExpired)
                     un  == Unmarshal(get.data)
                     c   == [NoSr EXCEPT !.pc = "count", !.raw = raw, !.getKey = key, !.ops = 1,
                                         !.getErr = get.err,
                                         !.unErr = IF get.err = "nil" /\ get.data.kind # "none" THEN un.err ELSE "nil",
                                         !.seen = get.data,
                                         !.lapsed = cache[k].kind = "expired"]
                 IN  IF IsHit(get, un)
                     THEN /\ lastSearch' = SearchRecord(c, 0, [result |-> NoResult, err |-> "nil"], "", "nil",
                                                        NoEntry, [out |-> un.result, err |-> "nil"])
                          /\ UNCHANGED sr
                     ELSE /\ sr' = [sr EXCEPT ![s] = c]
                          /\ lastSearch' = NoSearch
    /\ UNCHANGED <<cacheOn, cache, keyCalls, extVars>>
    /\ UNCHANGED <<now, lockVars, schedVars, histVars, rows, syncVars, upVars>>

\* Search, in s.repo.Search: the COUNT statement runs; its error is returned
\* to the caller
SearchCount(s) ==
    /\ sr[s].pc = "count"
    /\ \E fail \in BOOLEAN :
        LET repo == [result |-> NoResult, err |-> IF fail THEN "db" ELSE "nil"] IN
        IF SearchFailed(repo)
        THEN /\ lastSearch' = SearchRecord(sr[s], 1, repo, "", "nil", NoEntry, [out |-> NoResult, err |-> repo.err])
             /\ sr' = [sr EXCEPT ![s] = NoSr]
        ELSE /\ sr' = [sr EXCEPT ![s].pc = "find", ![s].total = RepoCount(rows, Validate(sr[s].raw))]
             /\ lastSearch' = NoSearch
    /\ UNCHANGED <<cacheOn, cache, keyCalls, extVars>>
    /\ UNCHANGED <<now, lockVars, schedVars, histVars, rows, syncVars, upVars>>

\* Search, in s.repo.Search: the SELECT statement runs on the table as it is
\* now, and the result is built with the total counted before; an error is
\* returned to the caller; without a cache the result is returned
SearchFind(s) ==
    /\ sr[s].pc = "find"
    /\ \E fail \in BOOLEAN, pg \in RepoFind(rows, Validate(sr[s].raw)) :
        LET repo == IF fail THEN [result |-> NoResult, err |-> "db"]
                    ELSE [result |-> NewSearchResult(pg, sr[s].total, Validate(sr[s].raw)), err |-> "nil"]
        IN
        IF SearchFailed(repo)
        THEN /\ lastSearch' = SearchRecord(sr[s], 1, repo, "", "nil", NoEntry, [out |-> NoResult, err |-> repo.err])
             /\ sr' = [sr EXCEPT ![s] = NoSr]
        ELSE IF ~CacheConfigured(cacheOn)
        THEN /\ lastSearch' = SearchRecord(sr[s], 1, repo, "", "nil", NoEntry, [out |-> repo.result, err |-> "nil"])
             /\ sr' = [sr EXCEPT ![s] = NoSr]
        ELSE /\ sr' = [sr EXCEPT ![s].pc = "set", ![s].res = repo.result, ![s].repoErr = repo.err]
             /\ lastSearch' = NoSearch
    /\ UNCHANGED <<cacheOn, cache, keyCalls, extVars>>
    /\ UNCHANGED <<now, lockVars, schedVars, histVars, rows, syncVars, upVars>>

\* Search: the result is marshalled and written back under the key with the
\* configured TTL; whatever the cache does, the result is returned
SearchStore(s) ==
    /\ sr[s].pc = "set"
    /\ \E marshalOk \in BOOLEAN, fail \in BOOLEAN :
        LET key  == SearchCacheKey(sr[s].raw)
            k    == buildKey(key)
            set  == IF marshalOk THEN CacheSet(cache, k, Marshal(sr[s].res), SearchTTL, now, fail)
                    ELSE [cache |-> cache, err |-> "nil"]
            repo == [result |-> sr[s].res, err |-> sr[s].repoErr]
        IN  /\ cache' = set.cache
            /\ lastSearch' = SearchRecord(sr[s], 1, repo, IF marshalOk THEN key ELSE "", set.err,
                                          IF marshalOk /\ set.err = "nil" THEN set.cache[k] ELSE NoEntry,
                                          AfterSet(sr[s].res, set.err))
    /\ sr' = [sr EXCEPT ![s] = NoSr]
    /\ UNCHANGED <<cacheOn, keyCalls, extVars>>
    /\ UNCHANGED <<now, lockVars, schedVars, histVars, rows, syncVars, upVars>>

\* bytes under a search key that are not the JSON of a SearchResult (written
\* by another release or another user of the key space)
CacheForeignWrite(k) ==
    /\ cacheOn
    /\ cache[k].kind = "json"
    /\ cache' = [cache EXCEPT ![k].kind = "garbage", ![k].body = NoResult]
    /\ lastSearch' = NoSearch
    /\ UNCHANGED <<cacheOn, sr, keyCalls, rows, syncVars, upVars, extVars>>
    /\ UNCHANGED <<now, lockVars, schedVars, histVars>>

NextSearch ==
    \/ \E s \in Searchers : SearchGet(s)
    \/ \E s \in Searchers : SearchCount(s)
    \/ \E s \in Searchers : SearchFind(s)
    \/ \E s \in Searchers : SearchStore(s)
    \/ \E name \in SyncNames : AdminBegin("SyncProvider", name)
    \/ \E idx \in DOMAIN ProviderList : ProviderFetched(idx)
    \/ \E idx \in DOMAIN ProviderList : BulkUpsertDone(idx)
    \/ AdminSyncProviderReturn
    \/ \E k \in CacheKeys : CacheForeignWrite(k)
    \/ AppTick

\* the service on an empty table, with or without a cache
InitSearch ==
    /\ InitSched
    /\ InitApp
    /\ cbCfg = BreakerDefaults
    /\ cfg = LockerConfig
    /\ rows = {}
    /\ cacheOn \in BOOLEAN

SpecSearch == InitSearch /\ [][NextSearch]_vars

\* ------------------- the repository and the cache, called directly

\* Repository.Delete: DELETE FROM contents WHERE id = ?; no such row is no error
Delete(tbl, id) == {r \in tbl : r.id # id}

\* Cache.Delete: DEL of the prefixed key; an absent key is no error
CacheDelete(c, k, fail) ==
    IF fail THEN [cache |-> c, err |-> "redis"]
    ELSE [cache |-> [c EXCEPT ![k] = NoEntry], err |-> "nil"]

\* Cache.Clear, the SCAN for keyPrefix:*: the keys stored in the backend
Scanned(c) == {k \in CacheKeys : Stored(c[k])}

\* Cache.Clear, the DEL of the keys found
CacheClear(c, found, fail) ==
    IF fail THEN [cache |-> c, err |-> "redis"]
    ELSE [cache |-> [k \in CacheKeys |-> IF k \in found THEN NoEntry ELSE c[k]], err |-> "nil"]

\* a caller deletes a row by id: one of the table, or one no row has
DeleteRow ==
    /\ \E id \in {r.id : r \in rows} \cup {NewID(rows)}, ok \in BOOLEAN :
        rows' = IF ok THEN Delete(rows, id) ELSE rows
    /\ UNCHANGED <<syncVars, upVars, searchVars, extVars>>
    /\ UNCHANGED <<now, lockVars, schedVars, histVars>>

\* a caller deletes a cache key
CacheDeleteCall(k) ==
    /\ clr.pc = "idle"
    /\ \E fail \in BOOLEAN : cache' = CacheDelete(cache, k, fail).cache
    /\ lastSearch' = NoSearch
    /\ UNCHANGED <<cacheOn, sr, keyCalls, rows, syncVars, upVars, extVars>>
    /\ UNCHANGED <<now, lockVars, schedVars, histVars>>

\* Cache.Clear up to its DEL: the iteration fails and Clear returns the error,
\* or finds no key and Clear returns nil, or finds the keys to delete
ClearScan ==
    /\ clr.pc = "idle"
    /\ \E fail \in BOOLEAN :
        clr' = IF fail \/ Scanned(cache) = {} THEN NoScan
               ELSE [pc |-> "del", found |-> Scanned(cache)]
    /\ lastSearch' = NoSearch
    /\ UNCHANGED <<cacheOn, cache, sr, keyCalls, rows, syncVars, upVars, fetchVars, queryVars, scoreVars, adminVars>>
    /\ UNCHANGED <<now, lockVars, schedVars, histVars>>

\* Cache.Clear: the DEL of the keys found, and the return
ClearDel ==
    /\ clr.pc = "del"
    /\ \E fail \in BOOLEAN : cache' = CacheClear(cache, clr.found, fail).cache
    /\ clr' = NoScan
    /\ lastSearch' = NoSearch
    /\ UNCHANGED <<cacheOn, sr, keyCalls, rows, syncVars, upVars, fetchVars, queryVars, scoreVars, adminVars>>
    /\ UNCHANGED <<now, lockVars, schedVars, histVars>>

\* one caller of Upsert and one of Search, next to the deletions
NextStore ==
    \/ UpsertBegin(1)
    \/ UpsertDone(1)
    \/ DeleteRow
    \/ SearchGet(1)
    \/ SearchCount(1)
    \/ SearchFind(1)
    \/ SearchStore(1)
    \/ \E k \in CacheKeys : CacheDeleteCall(k)
    \/ ClearScan
    \/ ClearDel
    \/ AppTick

\* the service with a cache, on an empty table
InitStore == InitSearch /\ cacheOn

SpecStore == InitStore /\ [][NextStore]_vars

\* ------------------------------------------------------------ key building

\* a cache key is built for some params, as Search does
BuildKey ==
    /\ keyCalls[1] = NoKeyCall
    /\ \E p \in KeyInputs :
        keyCalls' = <<keyCalls[2], [p |-> p, t |-> now, key |-> SearchCacheKey(p)]>>
    /\ UNCHANGED <<cacheOn, cache, sr, lastSearch, rows, syncVars, upVars, extVars>>
    /\ UNCHANGED <<now, lockVars, schedVars, histVars>>

NextKey ==
    \/ BuildKey
    \/ AppTick

SpecKey == InitLocker /\ [][NextKey]_vars

\* ------------------------------------------------- Repository.Search alone

\* the contents the table is filled from before a query
QueryContents ==
    UpsertContents \cup {[pid |-> "provider_a", ext |-> 2, ver |-> 2], [pid |-> "provider_b", ext |-> 1, ver |-> 1]}

\* the tables MaxQueryRows calls of Upsert can leave
QueryTables ==
    {UpsertAll({}, [k \in DOMAIN cs |-> [pid |-> cs[k].pid, ext |-> cs[k].ext, ver |-> cs[k].ver, updated |-> 0]], 0) :
        cs \in UNION {[1..n -> QueryContents] : n \in 0..MaxQueryRows}}

\* params handed to Repository.Search
QueryInputs ==
    [Query : {"", "go", "-go", "go OR rust"}, Type : {"", "video"}, Page : {0, 1, 2}, PageSize : {0, 1, 2, 101},
     SortBy : {"", "score", "relevance", "published_at", "views"}, SortOrder : {"", "asc", "desc"}]

\* the same search ordered by score
ScoreTwin(p) == [p EXCEPT !.SortBy = "score"]

\* the results the second statement of Repository.Search may give on table
\* tbl, for validated params p and the total counted before
Found(tbl, p, total) == {NewSearchResult(pg, total, p) : pg \in RepoFind(tbl, p)}

\* Repository.Search up to its first statement: params.Validate(), then
\* query.Count(&total) on the table as it is; a failed statement is returned
QueryCount ==
    /\ qr.pc = "idle"
    /\ ~qr.done
    /\ \E p \in QueryInputs, fail \in BOOLEAN :
        qr' = IF fail THEN [NoQuery EXCEPT !.done = TRUE, !.p = p, !.err = "db"]
              ELSE [NoQuery EXCEPT !.pc = "find", !.p = p, !.at = rows,
                                   !.total = RepoCount(rows, Validate(p))]
    /\ UNCHANGED <<rows, syncVars, upVars, searchVars, fetchVars, scoreVars, adminVars, storeVars>>
    /\ UNCHANGED <<now, lockVars, schedVars, histVars>>

\* Repository.Search, its second statement: finalQuery.Find(&models) on the
\* table as it is now, outside any transaction with the count; the result is
\* built from the rows found and the total counted before
QueryFind ==
    /\ qr.pc = "find"
    /\ \E fail \in BOOLEAN :
        LET p == Validate(qr.p)
            t == Validate(ScoreTwin(qr.p))
        IN  \E res \in IF fail THEN {NoResult} ELSE Found(rows, p, qr.total) :
                qr' = [qr EXCEPT !.pc = "idle", !.done = TRUE, !.err = IF fail THEN "db" ELSE "nil",
                                 !.res = res, !.any = Found(rows, p, qr.total),
                                 !.twin = Found(rows, t, RepoCount(qr.at, t))]
    /\ UNCHANGED <<rows, syncVars, upVars, searchVars, fetchVars, scoreVars, adminVars, storeVars>>
    /\ UNCHANGED <<now, lockVars, schedVars, histVars>>

\* a search, and the deletes of other callers that commit between its count
\* and its select
NextQuery ==
    \/ QueryCount
    \/ QueryFind
    \/ qr.pc = "find" /\ DeleteRow

InitQuery ==
    /\ InitSched
    /\ InitApp
    /\ cbCfg = BreakerDefaults
    /\ cfg = LockerConfig
    /\ rows \in QueryTables
    /\ cacheOn = FALSE

SpecQuery == InitQuery /\ [][NextQuery]_vars

\* --------------------------------------------------------- admin endpoints

\* provider names in the path of POST /api/v1/admin/sync/:provider
AdminNames == {"provider_a", "provider_c"}

\* the clock of the runs with a manual sync; the backend's answers are back
\* within the clock unit
AdminAdvance == now < MaxAdminTime /\ pend = {} /\ Tick

NextAdmin ==
    \/ \E i \in Inst : Start(i)
    \/ \E i \in Inst : ExecBegin(i)
    \/ \E i \in Inst : AcquireReturn(i)
    \/ \E i \in Inst, idx \in DOMAIN ProviderList : TickFetched(i, idx)
    \/ \E i \in Inst, idx \in DOMAIN ProviderList : TickUpserted(i, idx)
    \/ \E i \in Inst : SyncAllReturn(i)
    \/ \E i \in Inst : ExecRelease(i)
    \/ \E i \in Inst : ExecUnlock(i)
    \/ \E i \in Inst : ReleaseReturn(i)
    \/ AdminAdvance
    \/ AdminBegin("SyncAll", "")
    \/ \E name \in AdminNames : AdminBegin("SyncProvider", name)
    \/ \E idx \in DOMAIN ProviderList : ProviderFetched(idx)
    \/ \E idx \in DOMAIN ProviderList : BulkUpsertDone(idx)
    \/ AdminSyncProviderReturn
    \/ AdminSyncAllReturn

SpecAdmin == InitLocker /\ [][NextAdmin]_vars

\* ----------------------------------------------------------------- scoring

\* float64 values as exact fractions.  The float operations of the code
\* differ from them by rounding errors far below the distance of a fraction
\* of these metrics from the next rounding boundary, unless the fraction lies
\* on the boundary: there the error decides, see roundTo2Decimals
RECURSIVE GCD(_, _)
GCD(a, b) == IF b = 0 THEN a ELSE GCD(b, a % b)

Abs(x) == IF x < 0 THEN -x ELSE x

Rat(n, d) ==
    LET g == GCD(Abs(n), Abs(d))
        sgn == IF d < 0 THEN -1 ELSE 1
    IN  IF n = 0 THEN [n |-> 0, d |-> 1] ELSE [n |-> sgn * (n \div g), d |-> sgn * (d \div g)]

RAdd(a, b) ==
    LET g == GCD(a.d, b.d)
    IN  Rat(a.n * (b.d \div g) + b.n * (a.d \div g), (a.d \div g) * b.d)

RMul(a, b) ==
    LET x == Rat(a.n, b.d)
        y == Rat(b.n, a.d)
    IN  Rat(x.n * y.n, x.d * y.d)

\* int(x): the integer part, towards zero
TruncRat(a) == IF a.n >= 0 THEN a.n \div a.d ELSE -((-a.n) \div a.d)

\* the contents scored: metrics as the feeds give them, age in days (negative:
\* published in the future)
ScoreInputs ==
    {NilContent} \cup
    [nil : {FALSE}, Type : {"video", "article", "podcast"}, Views : {-20000, 0, 1000, 3333},
     Likes : {-100, 0, 333}, ReadingTime : {-5, 0, 15}, Reactions : {-50, 0, 100},
     age : {-1, 0, 8, 31, MaxAge}]

ContentTypeCoefficient(t) == IF t = "video" THEN Rat(3, 2) ELSE Rat(1, 1)

\* Content.DaysSincePublished
DaysSincePublished(c) == IF c.age < 0 THEN 0 ELSE c.age

calculateBaseScore(c) ==
    CASE c.Type = "video"   -> RAdd(Rat(c.Views, 1000), Rat(c.Likes, 100))
      [] c.Type = "article" -> RAdd(Rat(c.ReadingTime, 1), Rat(c.Reactions, 50))
      [] OTHER              -> Rat(0, 1)

calculateRecencyScore(c) ==
    LET days == DaysSincePublished(c)
    IN  IF days <= 7 THEN Rat(5, 1) ELSE IF days <= 30 THEN Rat(3, 1) ELSE IF days <= 90 THEN Rat(1, 1) ELSE Rat(0, 1)

calculateEngagementScore(c) ==
    CASE c.Type = "video"   -> IF c.Views = 0 THEN Rat(0, 1) ELSE RMul(Rat(c.Likes, c.Views), Rat(10, 1))
      [] c.Type = "article" -> IF c.ReadingTime = 0 THEN Rat(0, 1) ELSE RMul(Rat(c.Reactions, c.ReadingTime), Rat(5, 1))
      [] OTHER              -> Rat(0, 1)

\* float64(int(value*100+0.5)) / 100, in hundredths: the values the builds of
\* the code can return.  When value*100+0.5 is a whole number x, the value is
\* a multiple of 1/200 that is no multiple of 1/100 and has no exact double:
\* the double product lies just below or just above x (9.825 gives 982 on
\* amd64 and 983 with a fused multiply-add), and int() cuts towards zero
roundTo2Decimals(value) ==
    LET x == RAdd(RMul(value, Rat(100, 1)), Rat(1, 2))
    IN  IF x.d # 1 THEN {TruncRat(x)}
        ELSE IF x.n > 0 THEN {x.n - 1, x.n}
        ELSE IF x.n < 0 THEN {x.n, x.n + 1}
        ELSE {0}

\* CalculateScore, in hundredths: the values it can return
CalculateScore(c) ==
    IF c.nil THEN {0}
    ELSE roundTo2Decimals(
            RAdd(RAdd(RMul(calculateBaseScore(c), ContentTypeCoefficient(c.Type)), calculateRecencyScore(c)),
                 calculateEngagementScore(c)))

\* a provider client scores a content it fetched
ScoreContent ==
    /\ ~scored.done
    /\ \E c \in ScoreInputs : \E v \in CalculateScore(c) : scored' = [done |-> TRUE, c |-> c, score |-> v]
    /\ UNCHANGED <<rows, syncVars, upVars, searchVars, fetchVars, queryVars, adminVars, storeVars>>
    /\ UNCHANGED <<now, lockVars, schedVars, histVars>>

NextScore == ScoreContent

SpecScore == InitLocker /\ [][NextScore]_vars

\* -------------------------------------------------------- circuit breaker

Settings_DefaultTimeout ==
    [MaxRequests |-> cbCfg.MaxRequests, Interval |-> cbCfg.Interval, Timeout |-> 4 * cbCfg.Timeout]

\* NewCircuitBreaker: the settings handed to gobreaker
Settings == [MaxRequests |-> cbCfg.MaxRequests, Interval |-> cbCfg.Interval, Timeout |-> cbCfg.Timeout]

ReadyToTrip_NoMinimum(counts) ==
    counts.TotalFailures * RatioDen >= RatioNum * counts.Requests

ReadyToTrip_Default(counts) == counts.ConsecutiveFailures > 5

\* ReadyToTrip: counts.Requests >= 3 && failures / requests >= cfg.FailureRatio
ReadyToTrip(counts) ==
    /\ counts.Requests >= MinRequests
    /\ counts.TotalFailures * RatioDen >= RatioNum * counts.Requests

onRequest(c) == [c EXCEPT !.Requests = @ + 1]

onSuccess(c) ==
    [c EXCEPT !.TotalSuccesses = @ + 1, !.ConsecutiveSuccesses = @ + 1, !.ConsecutiveFailures = 0]

onFailure(c) ==
    [c EXCEPT !.TotalFailures = @ + 1, !.ConsecutiveFailures = @ + 1, !.ConsecutiveSuccesses = 0]

\* a new generation: the counts are cleared and the expiry is set by state
toNewGeneration(b, t) ==
    [b EXCEPT !.generation = @ + 1,
              !.counts = ZeroCounts,
              !.expiry = CASE b.state = "closed" ->
                                  (IF Settings.Interval = 0 THEN NoExpiry ELSE t + Settings.Interval)
                           [] b.state = "open" -> t + Settings.Timeout
                           [] OTHER -> NoExpiry]

setState(b, st, t) ==
    IF b.state = st THEN b ELSE toNewGeneration([b EXCEPT !.state = st], t)

\* the state at time t: a closed window that ran out starts a new generation,
\* an open breaker whose timeout ran out is half-open
currentState(b, t) ==
    CASE b.state = "closed" /\ b.expiry # NoExpiry /\ b.expiry < t -> toNewGeneration(b, t)
      [] b.state = "open" /\ b.expiry < t -> setState(b, "half-open", t)
      [] OTHER -> b

\* Execute, before the call: open fails fast, half-open admits MaxRequests
\* trials, an admitted call is counted as a request
beforeRequest(b, t) ==
    LET s == currentState(b, t) IN
    IF s.state = "open" THEN [cb |-> s, err |-> "open"]
    ELSE IF s.state = "half-open" /\ s.counts.Requests >= Settings.MaxRequests
    THEN [cb |-> s, err |-> "toomany"]
    ELSE [cb |-> [s EXCEPT !.counts = onRequest(@)], err |-> "nil"]

\* the counts once the outcome is recorded, before a change of state clears them
Counted(s, success) ==
    IF success THEN onSuccess(s.counts)
    ELSE IF s.state = "closed" THEN onFailure(s.counts) ELSE s.counts

\* Execute, after the call: an outcome of an older generation is dropped
afterRequest(b, before, success, t) ==
    LET s == currentState(b, t)
        c == [s EXCEPT !.counts = Counted(s, success)]
    IN  IF s.generation # before THEN s
        ELSE IF success
        THEN IF s.state = "half-open" /\ c.counts.ConsecutiveSuccesses >= Settings.MaxRequests
             THEN setState(c, "closed", t) ELSE c
        ELSE IF s.state = "closed"
        THEN IF ReadyToTrip(c.counts) THEN setState(c, "open", t) ELSE c
        ELSE setState(c, "open", t)

\* CircuitBreaker.State: the state is read through currentState, which moves
\* the breaker on when a window or the open timeout has run out
State(b, t) == currentState(b, t)

\* ------------------------------------------------------------ HTTP client

RetryCount_TotalAttempts(n) == n - 1

\* SetRetryCount(cfg.Retry.MaxAttempts): retries after the first attempt
RetryCount(n) == n

RetryCondition_AnyError(o) == o = "err" \/ StatusOf(o) >= 400

\* AddRetryCondition: a request error, or a status >= 500
RetryCondition(o) == o = "err" \/ StatusOf(o) >= 500

\* resty's retry loop: another attempt while retries are left, the condition
\* asks for one and the request's context is not done
CanAttempt(c) ==
    \/ c.n = 0
    \/ /\ c.n <= RetryCount(MaxAttempts)
       /\ RetryCondition(c.last)
       /\ ~c.ctxDone

\* r.IsError(): status > 399
IsError(o) == StatusOf(o) > 399

\* the callback of Execute returns a nil error
Succeeded(c) == c.last # "err" /\ ~IsError(c.last)

\* what the callback of Execute returns: the response, the status error, or
\* the error of the request; a context that ends during the wait before a
\* retry gives the context's error, one found done right after the response
\* leaves the response in place
ReturnKinds(c) ==
    IF Succeeded(c) THEN {"ok"}
    ELSE IF c.last = "err" THEN {"err"}
    ELSE IF c.ctxDone /\ c.n <= RetryCount(MaxAttempts) /\ RetryCondition(c.last) THEN {"status", "err"}
    ELSE {"status"}

AttemptBreaker_PerAttempt(b, n) == IF n > 1 THEN [b EXCEPT !.counts = onRequest(@)] ELSE b

\* Fetch: the whole retry loop runs inside one Execute; an attempt does not
\* touch the breaker
AttemptBreaker(b, n) == b

\* ------------------------------------------------------------ Client.Fetch

\* the body of a response Execute let through: provider_b's xml.Unmarshal
\* accepts it or not
Bodies == {"valid", "invalid"}

\* Fetch after Execute returned an error: the log line is still to be written
Logging == [NoFt EXCEPT !.pc = "log"]

FetchStat(st, failed, is500, n, t) ==
    [allFailed |-> st.allFailed /\ failed,
     streak500 |-> IF is500 THEN (IF st.streak500 < StreakCap THEN st.streak500 + 1 ELSE st.streak500)
                   ELSE 0,
     thirdAt |-> IF n = 3 THEN t ELSE st.thirdAt]

\* Fetch up to the first request: the breaker admits the call or fails it fast
\* (Execute returns the error at once)
FetchBegin(f) ==
    /\ ft[f].pc = "idle"
    /\ fetches < MaxFetches
    /\ fetches' = fetches + 1
    /\ LET s   == currentState(cb, now)
           res == beforeRequest(cb, now)
       IN  /\ cb' = res.cb
           /\ IF res.err # "nil"
              THEN /\ lastFetch' = [NoFetch EXCEPT !.done = TRUE, !.kind = res.err,
                                                   !.countsBefore = s.counts, !.countsAt = res.cb.counts,
                                                   !.stateAt = s.state, !.stateAfter = res.cb.state,
                                                   !.allFailedBefore = fstat.allFailed,
                                                   !.streakBefore = fstat.streak500]
                   /\ fstat' = FetchStat(fstat, TRUE, FALSE, fetches + 1, now)
                   /\ ft' = [ft EXCEPT ![f] = Logging]
              ELSE /\ ft' = [ft EXCEPT ![f] = [NoFt EXCEPT !.pc = "run", !.gen = res.cb.generation,
                                                           !.reqAdm = res.cb.counts.Requests]]
                   /\ lastFetch' = NoFetch
                   /\ UNCHANGED fstat
    /\ UNCHANGED <<cbCfg, openedAt, queryVars, scoreVars, adminVars, storeVars>>
    /\ UNCHANGED <<now, lockVars, schedVars, histVars, rows, syncVars, upVars, searchVars>>

\* one HTTP attempt of the retry loop; a request whose context is done fails
FetchAttempt(f) ==
    /\ ft[f].pc = "run"
    /\ CanAttempt(ft[f])
    /\ \E o \in (IF ft[f].ctxDone THEN {"err"} ELSE Outcomes) :
        ft' = [ft EXCEPT ![f].n = @ + 1, ![f].last = o,
                         ![f].all5xx = @ /\ StatusOf(o) >= 500]
    /\ cb' = AttemptBreaker(cb, ft[f].n + 1)
    /\ lastFetch' = NoFetch
    /\ UNCHANGED <<cbCfg, fetches, openedAt, fstat, queryVars, scoreVars, adminVars, storeVars>>
    /\ UNCHANGED <<now, lockVars, schedVars, histVars, rows, syncVars, upVars, searchVars>>

\* the context handed to Fetch is cancelled or runs into its deadline
FetchCancel(f) ==
    /\ ft[f].pc = "run"
    /\ ~ft[f].ctxDone
    /\ ft' = [ft EXCEPT ![f].ctxDone = TRUE]
    /\ lastFetch' = NoFetch
    /\ UNCHANGED <<cbCfg, cb, fetches, openedAt, fstat, queryVars, scoreVars, adminVars, storeVars>>
    /\ UNCHANGED <<now, lockVars, schedVars, histVars, rows, syncVars, upVars, searchVars>>

\* the retry loop is over: Execute records the outcome and returns; on a
\* response Fetch parses the body and returns the contents or the parse error,
\* on an error it goes on to its log line
FetchReturn(f) ==
    /\ ft[f].pc = "run"
    /\ ft[f].n >= 1
    /\ ~CanAttempt(ft[f])
    /\ \E kind \in ReturnKinds(ft[f]), body \in Bodies :
       LET c    == ft[f]
           ok   == kind = "ok"
           s    == currentState(cb, now)
           same == s.generation = c.gen
           nb   == afterRequest(cb, c.gen, ok, now)
       IN  /\ ok \/ body = "valid"
           /\ cb' = nb
           /\ openedAt' = IF nb.state = "open" /\ s.state # "open" THEN now ELSE openedAt
           /\ lastFetch' = [done |-> TRUE,
                            kind |-> kind,
                            attempts |-> c.n, last |-> c.last, all5xx |-> c.all5xx,
                            cancelled |-> c.ctxDone, parsed |-> ok /\ body = "valid",
                            contents |-> ok /\ body = "valid", reqAdm |-> c.reqAdm,
                            sameGen |-> same, stateAt |-> s.state,
                            countsAt |-> IF same THEN Counted(s, ok) ELSE s.counts,
                            countsBefore |-> s.counts, stateAfter |-> nb.state,
                            allFailedBefore |-> fstat.allFailed,
                            streakBefore |-> fstat.streak500]
           /\ fstat' = FetchStat(fstat, ~ok, kind = "status" /\ StatusOf(c.last) >= 500, fetches, now)
           /\ ft' = [ft EXCEPT ![f] = IF ok THEN NoFt ELSE Logging]
    /\ UNCHANGED <<cbCfg, fetches, queryVars, scoreVars, adminVars, storeVars>>
    /\ UNCHANGED <<now, lockVars, schedVars, histVars, rows, syncVars, upVars, searchVars>>

\* Fetch, err != nil: c.cb.State() is called for the log line, and Fetch
\* returns the wrapped error
FetchFailed(f) ==
    /\ ft[f].pc = "log"
    /\ cb' = State(cb, now)
    /\ ft' = [ft EXCEPT ![f] = NoFt]
    /\ lastFetch' = NoFetch
    /\ UNCHANGED <<cbCfg, fetches, openedAt, fstat, queryVars, scoreVars, adminVars, storeVars>>
    /\ UNCHANGED <<now, lockVars, schedVars, histVars, rows, syncVars, upVars, searchVars>>

\* the clock of the provider client advances
FetchTick ==
    /\ now < MaxFetchTime
    /\ now' = now + 1
    /\ lastFetch' = NoFetch
    /\ UNCHANGED <<cbCfg, cb, ft, fetches, openedAt, fstat, queryVars, scoreVars, adminVars, storeVars>>
    /\ UNCHANGED <<lockVars, schedVars, histVars, rows, syncVars, upVars, searchVars>>

NextFetch ==
    \/ \E f \in Fetchers : FetchBegin(f)
    \/ \E f \in Fetchers : FetchAttempt(f)
    \/ \E f \in Fetchers : FetchCancel(f)
    \/ \E f \in Fetchers : FetchReturn(f)
    \/ \E f \in Fetchers : FetchFailed(f)
    \/ FetchTick

\* a provider client under any of the breaker configurations
InitFetch ==
    /\ InitSched
    /\ InitApp
    /\ cfg = LockerConfig
    /\ rows = {}
    /\ cacheOn = FALSE

SpecFetch == InitFetch /\ [][NextFetch]_vars

\* ------------------------------------------------------------- properties

\* the call reached the backend: it did not fail at the transport
Reached(c) == c.err \notin {"redis", "ctx"}

\* C1: an Acquire that reaches the backend while the key is held and its TTL has
\* not expired returns (false, nil) and leaves the holder's key in place; one
\* that finds the key free returns (true, nil), and when it returns the caller
\* is the only locker whose table holds the mutex of the value it set.  Of any
\* number of Acquires on a free key exactly the first to reach the backend wins.
C1_SingleWinner ==
    (lastCall.op = "Acquire" /\ Reached(lastCall)) =>
        /\ lastCall.err = "nil"
        /\ lastCall.ok <=> (lastCall.before = NoTok)
        /\ lastCall.before # NoTok => lastCall.after = lastCall.before
        /\ lastCall.ok => /\ lastCall.after # NoTok
                          /\ mutexes[lastCall.inst][LockKey] = lastCall.after
                          /\ \A j \in Lockers \ {lastCall.inst} :
                                mutexes[j][LockKey] # lastCall.after

C1_Witness ==
    /\ lastCall.op = "Acquire"
    /\ lastCall.err = "nil"
    /\ ~lastCall.ok
    /\ lastCall.before # NoTok
    /\ \E j \in Lockers \ {lastCall.inst} : mutexes[j][LockKey] = redis[LockKey].val

\* the caller of a Release is not the current holder: it has no stored mutex,
\* or the key is held under another value than its stored mutex's
NotHolder(c) == c.mine = NoTok \/ (c.before # NoTok /\ c.mine # c.before)

\* C2: a Release by a locker that is not the current holder of the key leaves
\* the holder's key in place and returns no error.
C2_StaleReleaseNoError ==
    (lastCall.op = "Release" /\ Reached(lastCall) /\ NotHolder(lastCall)) =>
        /\ lastCall.after = lastCall.before
        /\ lastCall.err = "nil"

\* C3: two scheduler instances never run SyncAll at overlapping times.
C3_NoOverlap == \A i, j \in Inst : (i # j) => ~(Syncing(i) /\ Syncing(j))

\* the tick that holds the lock ended with every provider result error-free,
\* and the TTL of its acquisition has not run out
CoolingDown == lastHold.cool /\ now < lastHold.exp

StartsSync(i) == ~Syncing(i) /\ Syncing(i)'

\* C4: when the tick that acquired the lock ends with every provider result
\* error-free, the scheduler does not release: until the TTL of that acquisition
\* expires the key stays held under its value, no Acquire succeeds and no
\* SyncAll starts on any instance.
C4_CooldownHeld ==
    /\ [](CoolingDown =>
            /\ redis[LockKey].val # NoTok
            /\ redis[LockKey].val = mutexes[lastHold.inst][LockKey]
            /\ redis[LockKey].exp = lastHold.exp
            /\ ~lastHold.released)
    /\ [][CoolingDown =>
            /\ \A i \in Inst : ~StartsSync(i)
            /\ (lastCall' # lastCall /\ lastCall'.op = "Acquire") => ~lastCall'.ok]_vars

C4_Witness ==
    /\ CoolingDown
    /\ lastCall.op = "Acquire"
    /\ lastCall.inst # lastHold.inst
    /\ lastCall.err = "nil"
    /\ ~lastCall.ok

\* the step in which the Release that executeSync of instance i called after
\* a SyncAll with an error returns
ErrorTickEnds(i) ==
    /\ Releasing(i) \/ Returning(i)
    /\ pc'[i] = "waiting"
    /\ lastCall'.op = "Release"
    /\ lastCall'.inst = i

\* C5: whenever a provider result of a tick carries an error, the lock that tick
\* holds is released at the end of the tick (the backend being reachable), so
\* that the key is free for another instance before its TTL has run out.
C5_ReleasedOnError ==
    [][\A i \in Inst :
        (/\ ErrorTickEnds(i)
         /\ lastCall'.err # "redis"
         /\ lastCall'.mine # NoTok
         /\ lastCall'.before = lastCall'.mine)
        => lastCall'.after = NoTok]_vars

\* both schedulers were started at time 0 with run-on-startup and a timeout
\* below the interval, no call failed at the transport, nobody called Stop, and
\* no SyncAll is in flight
QuietRun ==
    /\ undisturbed
    /\ cfg.onStartup
    /\ cfg.timeout < cfg.interval
    /\ \A i \in Inst : mainPc[i] = "running" /\ ~Syncing(i)

\* C6 as stated: with two instances and interval T, when every sync succeeds
\* SyncAll is invoked exactly 3 times over 3T.
C6_ExactlyThree ==
    (now >= 3 * cfg.interval /\ allOk /\ QuietRun) => syncCount = 3

\* C6 amended: with two instances and interval T, as long as every sync
\* succeeds SyncAll is invoked at most 3 times in the first 3T.
C6_AtMostThree == allOk => syncCount <= 3

C6_Witness == now >= 3 * cfg.interval /\ allOk /\ QuietRun /\ syncCount = 3

\* the step in which the driver of instance i enters executeSync
TickStep(i) ==
    \/ pc[i] = "startup" /\ pc'[i] # "startup"
    \/ pc[i] = "waiting" /\ tickReady[i] /\ ~tickReady'[i] /\ pc'[i] # "exited"

\* the step in which the Acquire of instance i's executeSync returns
AcquireReturns(i) == Acquiring(i) /\ ~Acquiring(i)'

\* C7: a tick whose Acquire returns an error or false calls neither SyncAll
\* nor Release, changes nothing in the lock, and leaves the driver in its loop
\* with its ticker running.
C7_SkipOnFailedAcquire ==
    [][\A i \in Inst :
        (AcquireReturns(i) /\ (lastCall'.err # "nil" \/ ~lastCall'.ok)) =>
            /\ lastCall'.op = "Acquire"
            /\ lastCall'.inst = i
            /\ pc'[i] = "waiting"
            /\ tickerStart'[i] # NoTicker
            /\ syncCount' = syncCount
            /\ mutexes' = mutexes
            /\ lastCall'.after = lastCall'.before]_vars

C7_Witness ==
    /\ lastCall.op = "Acquire"
    /\ lastCall.err = "redis"
    /\ lastCall.inst \in Inst
    /\ pc[lastCall.inst] = "waiting"
    /\ mainPc[lastCall.inst] = "running"
    /\ tickerStart[lastCall.inst] # NoTicker
    /\ tickerStart[lastCall.inst] < now

\* C8: an Acquire that reaches the backend after the TTL of the latest
\* acquisition has run out succeeds although that acquisition was never
\* released.
C8_ExpiredLockAcquirable ==
    (lastCall.op = "Acquire" /\ Reached(lastCall) /\ lastCall.elapsed) => lastCall.ok

C8_Witness ==
    /\ lastCall.op = "Acquire"
    /\ lastCall.elapsed
    /\ lastCall.ok
    /\ \E j \in Lockers \ {lastCall.inst} : mutexes[j][LockKey] # NoTok

\* C9 as stated: the context of a running SyncAll is done only by its timeout;
\* cancelling the scheduler context does not cancel it.
C9_IndependentContext ==
    \A i \in Inst :
        (Syncing(i) /\ now < syncCtx[i].deadline) => ~CtxDone(syncCtx[i], i, now, cancelled)

\* C9 amended: SyncAll runs under a context bounded by the sync timeout and
\* derived from the scheduler context: it never runs past its deadline, and its
\* context is done exactly when the deadline is reached or the scheduler
\* context is cancelled.
C9_DerivedContext ==
    \A i \in Inst : Syncing(i) =>
        /\ now <= syncCtx[i].deadline
        /\ syncCtx[i].deadline <= now + cfg.timeout
        /\ CtxDone(syncCtx[i], i, now, cancelled) <=> (now >= syncCtx[i].deadline \/ cancelled[i])

C9_Witness ==
    \E i \in Inst :
        /\ Syncing(i)
        /\ cancelled[i]
        /\ now < syncCtx[i].deadline
        /\ CtxDone(syncCtx[i], i, now, cancelled)

\* C10 as stated: once the scheduler context is cancelled no SyncAll is
\* started on that instance, and a SyncAll that is running returns before the
\* clock moves.
C10_CancelStops ==
    [][\A i \in Inst : cancelled[i] =>
        /\ ~StartsSync(i)
        /\ Syncing(i) => now' = now]_vars

\* C10 amended: once the scheduler context is cancelled, an executeSync the
\* driver enters fails in Acquire with the context's error, sends nothing to
\* the backend and starts no SyncAll; only an executeSync whose Acquire was in
\* flight when the context was cancelled, and comes back with the lock, still
\* calls SyncAll, under a context that is done from the start; and a SyncAll
\* that is running returns before the clock moves.
C10_CancelStopsEntered ==
    /\ [][\A i \in Inst : cancelled[i] =>
            /\ TickStep(i) =>
                    /\ redis' = redis
                    /\ Acquiring(i)'
                    /\ \A c \in pend' : c.inst = i => c.call.err = "ctx"
            /\ StartsSync(i) =>
                    /\ \A c \in FlightOf(i) : c.call.err = "nil" /\ c.call.ok
                    /\ CtxDone(syncCtx'[i], i, now, cancelled)
            /\ Syncing(i) => now' = now]_vars
    /\ [][\A i \in Inst : (AcquireReturns(i) /\ lastCall'.err = "ctx") => pc'[i] = "waiting"]_vars
    /\ [](\A i \in Inst : (Syncing(i) /\ cancelled[i]) => CtxDone(syncCtx[i], i, now, cancelled))

\* the Acquire of a tick was in flight when Stop cancelled the context, and the
\* tick's SyncAll has been called since
C10_Witness ==
    \E i \in Inst :
        /\ cancelled[i]
        /\ Syncing(i)
        /\ lastCall.op = "Acquire"
        /\ lastCall.inst = i
        /\ lastCall.ok
        /\ lastCall.ctxGone
        /\ CtxDone(syncCtx[i], i, now, cancelled)

\* the driver goroutine of instance i is alive
DriverAlive(i) == pc[i] \notin {"idle", "exited"}

\* C11: Start spawns exactly one driver (the WaitGroup counts it until it
\* exits); Stop cancels the scheduler context and returns only after that
\* driver has exited: once Stop has returned no tick is in flight and none
\* starts afterwards.
C11_StopJoins ==
    /\ [](\A i \in Inst :
            /\ wg[i] = (IF DriverAlive(i) THEN 1 ELSE 0)
            /\ mainPc[i] = "running" => DriverAlive(i)
            /\ mainPc[i] \in {"stopping", "stopped"} => cancelled[i]
            /\ mainPc[i] = "stopped" => (pc[i] = "exited" /\ ~Syncing(i) /\ ~tickReady[i]))
    /\ [][\A i \in Inst : mainPc[i] = "stopped" =>
            (pc'[i] = "exited" /\ ~TickStep(i) /\ ~StartsSync(i))]_vars

\* Stop was called while a tick was in flight, and has returned
C11_Witness ==
    \E i \in Inst :
        /\ mainPc[i] = "stopped"
        /\ pc[i] = "exited"
        /\ lastCall.op = "Release"
        /\ lastCall.inst = i
        /\ lastCall.err = "ctx"

\* the latest SyncAll has returned and no other is running
Returned == syncPc = "idle" /\ runs > 0

\* the rows of provider p carry what its Fetch returned, written by this run
Upserted(idx) ==
    \A k \in DOMAIN batch[idx].contents :
        \E r \in rows :
            /\ RowKey(r) = <<ProviderList[idx], batch[idx].contents[k].ext>>
            /\ r.ver = batch[idx].contents[k].ver
            /\ r.updated = stamp[idx]

\* C12: SyncAll returns only after every provider's goroutine has settled; a
\* provider's result carries an error exactly when its own fetch or upsert
\* failed, whatever its peers did, and the rows of every provider whose result
\* has a nil error are upserted.
C12_PeersComplete ==
    Returned =>
        /\ \A idx \in DOMAIN ProviderList : gor[idx] = "done"
        /\ \A idx \in DOMAIN ProviderList :
            /\ (ret[idx].Error # "nil") <=> (outcome[idx] \in {"fetchErr", "upsertErr"})
            /\ (ret[idx].Error = "nil") => (outcome[idx] = "ok" /\ Upserted(idx))

\* provider_a failed first, provider_b went on and its rows are in the table
C12_Witness ==
    /\ Returned
    /\ settled = <<1, 2>>
    /\ ret[1].Error = "fetch"
    /\ ret[2].Error = "nil"
    /\ ret[2].Count = 1
    /\ Upserted(2)

\* C13: SyncAll returns exactly one SyncResult per registered provider, and
\* result i belongs to the i-th provider of the injected list, in whatever
\* order the goroutines finished.
C13_ResultOrder ==
    Returned =>
        /\ DOMAIN ret = DOMAIN ProviderList
        /\ \A idx \in DOMAIN ProviderList : ret[idx].Provider = ProviderList[idx]

C13_Witness ==
    /\ Returned
    /\ settled = <<2, 1>>
    /\ ret[1].Provider = "provider_a"
    /\ ret[2].Provider = "provider_b"

\* number of items the providers serve
FeedSize == Len(Feed["provider_a"]) + Len(Feed["provider_b"])

\* C14: when SyncAll has run twice against the stable feed, each time without
\* error, the table holds exactly one row per feed item, and every row has the
\* id and created_at it had after the first run and an updated_at that is not
\* earlier.
C14_Idempotent ==
    (Returned /\ prevOk /\ NoError(ret) /\ StableFeed(batch)) =>
        /\ Cardinality(rows) = FeedSize
        /\ Cardinality(prevRows) = FeedSize
        /\ \A r \in rows : \E q \in prevRows :
                /\ RowKey(q) = RowKey(r)
                /\ q.id = r.id
                /\ q.created = r.created
                /\ q.updated <= r.updated

\* the second run came later: updated_at has moved, created_at has not
C14_Witness ==
    /\ Returned
    /\ prevOk
    /\ NoError(ret)
    /\ StableFeed(batch)
    /\ \E r \in rows : \E q \in prevRows :
            RowKey(q) = RowKey(r) /\ q.created = r.created /\ q.updated < r.updated

\* C15: after any sequence of upserts, concurrent ones on the same key
\* included, the table holds exactly one row per (provider_id, external_id);
\* an upsert on an existing key keeps that row's id and created_at and does
\* not move its updated_at back.
C15_OneRowPerKey ==
    /\ [](\A r, q \in rows : (RowKey(r) = RowKey(q) \/ r.id = q.id) => r = q)
    /\ [][\A r \in rows : \E q \in rows' :
            /\ RowKey(q) = RowKey(r)
            /\ q.id = r.id
            /\ q.created = r.created
            /\ q.updated >= r.updated]_vars

\* a cache operation of the returned Search failed
CacheTrouble(c) == c.getErr # "nil" \/ c.unErr # "nil" \/ c.setErr # "nil"

\* C16: Search never fails because of the cache: when cache Get returns an
\* error, the cached bytes do not deserialise, or cache Set returns an error,
\* the repository is consulted and Search returns the repository's result; it
\* returns an error only when the repository does, and then that error.
C16_FailOpen ==
    lastSearch.done =>
        /\ CacheTrouble(lastSearch) =>
                /\ lastSearch.repoCalls = 1
                /\ lastSearch.repoErr = "nil" => (lastSearch.out = lastSearch.repoRes /\ lastSearch.err = "nil")
        /\ lastSearch.err # "nil" => (lastSearch.repoCalls = 1 /\ lastSearch.err = lastSearch.repoErr)

\* the cache backend is down for the Get and for the Set of one request
C16_Witness ==
    /\ lastSearch.done
    /\ lastSearch.getErr = "redis"
    /\ lastSearch.setErr = "redis"
    /\ lastSearch.err = "nil"
    /\ lastSearch.out = lastSearch.repoRes
    /\ lastSearch.out.Total = 1

\* C17: on a cache hit (Get returns bytes that deserialise) Search returns the
\* cached result without calling the repository; otherwise it calls the
\* repository once, and the serialised result is written under the key that
\* was read, with the configured TTL.
C17_CacheAside ==
    (lastSearch.done /\ cacheOn) =>
        /\ lastSearch.hit <=> (lastSearch.getErr = "nil" /\ lastSearch.seen.kind = "json")
        /\ lastSearch.hit =>
                /\ lastSearch.repoCalls = 0
                /\ lastSearch.out = lastSearch.seen.body
                /\ lastSearch.err = "nil"
                /\ lastSearch.setKey = ""
        /\ ~lastSearch.hit => lastSearch.repoCalls = 1
        /\ (lastSearch.setKey # "" /\ lastSearch.setErr = "nil") =>
                /\ lastSearch.setKey = lastSearch.getKey
                /\ lastSearch.stored = [kind |-> "json", body |-> lastSearch.repoRes, exp |-> now + SearchTTL]
                /\ cache[buildKey(lastSearch.setKey)] = lastSearch.stored
                /\ Unmarshal(lastSearch.stored) = [result |-> lastSearch.out, err |-> "nil"]

\* a hit on an entry an earlier miss wrote
C17_Witness ==
    /\ lastSearch.done
    /\ lastSearch.hit
    /\ lastSearch.out.Total = 1
    /\ cache[buildKey(lastSearch.getKey)].exp < now + SearchTTL

\* C18: with no cache collaborator configured Search performs no cache
\* operation and returns exactly what the repository's Search returns for the
\* clamped params: its error, or the result made of the total its COUNT gave
\* and a page its SELECT gives on the table.
C18_CacheDisabled ==
    ~cacheOn =>
        /\ \A k \in CacheKeys : cache[k] = NoEntry
        /\ lastSearch.done =>
                /\ lastSearch.ops = 0
                /\ lastSearch.getKey = "" /\ lastSearch.setKey = ""
                /\ lastSearch.repoCalls = 1
                /\ lastSearch.arg = Validate(lastSearch.raw)
                /\ lastSearch.err = lastSearch.repoErr
                /\ lastSearch.err = "nil" =>
                        /\ lastSearch.out = lastSearch.repoRes
                        /\ lastSearch.out \in {NewSearchResult(pg, lastSearch.counted, lastSearch.arg) :
                                                    pg \in RepoFind(rows, lastSearch.arg)}
                /\ lastSearch.err # "nil" => lastSearch.out = NoResult

\* a search without a cache returned the row a sync had written
C18_Witness ==
    /\ ~cacheOn
    /\ lastSearch.done
    /\ lastSearch.err = "nil"
    /\ lastSearch.arg.PageSize = 20
    /\ lastSearch.out.Total = 1
    /\ Len(lastSearch.out.Contents) = 1
    /\ \E r \in rows : r.updated > 0

\* C19: upserts and syncs never delete or overwrite cache entries; an entry
\* lives no longer than the configured TTL; while it lives a hit returns it
\* unchanged, whatever the rows have become; a Search that finds it expired
\* goes to the repository once and returns the repository's result.
C19_ExpireOnly ==
    /\ [][rows' # rows => cache' = cache]_vars
    /\ [](\A k \in CacheKeys : Stored(cache[k]) => (now <= cache[k].exp /\ cache[k].exp <= now + SearchTTL))
    /\ []((lastSearch.done /\ lastSearch.hit) => lastSearch.out = lastSearch.seen.body)
    /\ []((lastSearch.done /\ lastSearch.lapsed) =>
            /\ ~lastSearch.hit
            /\ lastSearch.repoCalls = 1
            /\ lastSearch.repoErr = "nil" => lastSearch.out = lastSearch.repoRes)

\* a hit serves a result the repository no longer gives
C19_Witness ==
    /\ lastSearch.done
    /\ lastSearch.hit
    /\ lastSearch.out \notin SearchResults(rows, lastSearch.arg)

\* the six fields of p after clamping
Clamped(p) ==
    <<p.Query, p.Type, IF p.Page < 1 THEN 1 ELSE p.Page,
      IF p.PageSize < 1 THEN 20 ELSE IF p.PageSize > 100 THEN 100 ELSE p.PageSize,
      IF p.SortBy = "" THEN "score" ELSE p.SortBy, IF p.SortOrder = "" THEN "desc" ELSE p.SortOrder>>

\* C20: the cache key is a function of the clamped params only: the keys two
\* Search calls build are the same key whenever the params the calls received
\* agree in their six fields after clamping, at whatever times the calls are
\* made and however the params differed before clamping.
C20_KeyDeterministic ==
    (keyCalls[1].t >= 0 /\ Clamped(keyCalls[1].p) = Clamped(keyCalls[2].p)) =>
        keyCalls[1].key = keyCalls[2].key

C20_Witness ==
    /\ keyCalls[1].t >= 0
    /\ keyCalls[1].t < keyCalls[2].t
    /\ keyCalls[1].p # keyCalls[2].p
    /\ keyCalls[1].p.PageSize = 101
    /\ keyCalls[2].p.PageSize = 100
    /\ Validate(keyCalls[1].p) = Validate(keyCalls[2].p)
    /\ keyCalls[1].key = keyCalls[2].key

\* the Fetch that returned was let through by the breaker
Admitted(c) == c.kind \in {"ok", "status", "err"}

\* the trip condition on the counts of the window: at least three requests and
\* failures / requests >= 0.6
TripCondition(counts) ==
    counts.Requests >= 3 /\ 10 * counts.TotalFailures >= 6 * counts.Requests

\* the breaker is open and its timeout has not run out
StillOpen == cb.state = "open" /\ now <= openedAt + cbCfg.Timeout

\* a Fetch call starts in this step
FetchStarts == fetches' = fetches + 1

\* C21 as stated: a Fetch made while the breaker is open fails fast without an
\* HTTP request, and after five consecutive Fetch calls that ended in provider
\* 500s the sixth is such a fast-fail.
C21_SixthFastFails ==
    lastFetch.done =>
        /\ lastFetch.kind = "open" => lastFetch.attempts = 0
        /\ lastFetch.streakBefore >= 5 => (lastFetch.kind = "open" /\ lastFetch.attempts = 0)

\* the first counting window of the breaker, built at time 0, has not run out
\* at time t
InFirstWindow(t) == cbCfg.Interval = 0 \/ t <= cbCfg.Interval

\* C21 as amended: a Fetch made while the breaker is open (its timeout not yet
\* run out) returns the circuit-open error without an HTTP request and without
\* touching the counts; on a newly built breaker with failure_ratio 0.6 and a
\* minimum of 3, when the first three Fetch calls fail in Execute within the
\* first counting window the third opens the breaker, and every Fetch made
\* from then until the timeout has run out - the fourth, the fifth, the
\* sixth - is such a fast-fail.
C21_OpenFailsFast ==
    /\ [][(StillOpen /\ FetchStarts) =>
            /\ lastFetch'.done /\ lastFetch'.kind = "open" /\ lastFetch'.attempts = 0
            /\ cb' = cb
            /\ \A f \in Fetchers : ft'[f].pc = "run" <=> ft[f].pc = "run"]_vars
    /\ []((lastFetch.done /\ lastFetch.kind = "open") => lastFetch.attempts = 0)
    /\ []((lastFetch.done /\ lastFetch.allFailedBefore /\ lastFetch.kind \in {"status", "err"}
                /\ fetches = 3 /\ InFirstWindow(now)) =>
            (lastFetch.stateAfter = "open" /\ openedAt = now))
    /\ []((lastFetch.done /\ lastFetch.allFailedBefore /\ fetches >= 4
                /\ InFirstWindow(fstat.thirdAt) /\ now <= fstat.thirdAt + cbCfg.Timeout) =>
            (lastFetch.kind = "open" /\ lastFetch.attempts = 0))

\* the sixth of six failed calls in a row on a new breaker whose timeout is
\* longer than its counting window: three failed requests in the first
\* window, then fast-fails, the sixth after that window has run out
C21_Witness ==
    /\ lastFetch.done
    /\ lastFetch.kind = "open"
    /\ lastFetch.attempts = 0
    /\ lastFetch.allFailedBefore
    /\ fetches = 6
    /\ cbCfg.Timeout > cbCfg.Interval
    /\ InFirstWindow(fstat.thirdAt)
    /\ ~InFirstWindow(now)
    /\ now <= fstat.thirdAt + cbCfg.Timeout

\* C22 as stated: a closed breaker opens after any call outcome that leaves
\* requests >= 3 and failures / requests >= failure_ratio in the window, and
\* never opens with fewer than 3 requests.
C22_TripsOnAnyOutcome ==
    (lastFetch.done /\ Admitted(lastFetch) /\ lastFetch.sameGen /\ lastFetch.stateAt = "closed") =>
        /\ TripCondition(lastFetch.countsAt) => lastFetch.stateAfter = "open"
        /\ lastFetch.stateAfter = "open" => lastFetch.countsAt.Requests >= 3

\* C22 as amended: a closed breaker opens after any failed call outcome that
\* leaves requests >= 3 and failures / requests >= failure_ratio in the
\* window; it opens on no other occasion, so never on a success and never
\* with fewer than 3 requests.
C22_TripsOnFailure ==
    (lastFetch.done /\ Admitted(lastFetch) /\ lastFetch.stateAt = "closed") =>
        (lastFetch.stateAfter = "open" <=>
            /\ lastFetch.sameGen
            /\ lastFetch.kind # "ok"
            /\ TripCondition(lastFetch.countsAt))

\* a failure trips a window that also holds a success
C22_Witness ==
    /\ lastFetch.done
    /\ lastFetch.stateAt = "closed"
    /\ lastFetch.stateAfter = "open"
    /\ lastFetch.kind = "status"
    /\ lastFetch.countsAt.Requests = 3
    /\ lastFetch.countsAt.TotalSuccesses = 1

\* C23: an open breaker lets the first call after its timeout through as a
\* half-open trial and fails every earlier call fast; a half-open breaker
\* closes when max_requests successes in a row have been counted, stays
\* half-open on a success before that, and re-opens on any failure.
C23_HalfOpenCycle ==
    /\ [][(cb.state = "open" /\ FetchStarts) =>
            IF now > openedAt + cbCfg.Timeout
            THEN /\ cb'.state = "half-open"
                 /\ cb'.counts = onRequest(ZeroCounts)
                 /\ \E f \in Fetchers : ft'[f].pc = "run"
            ELSE cb' = cb /\ lastFetch'.kind = "open"]_vars
    /\ []((lastFetch.done /\ Admitted(lastFetch) /\ lastFetch.stateAt = "half-open") =>
            /\ lastFetch.sameGen
            /\ lastFetch.kind # "ok" => (lastFetch.stateAfter = "open" /\ openedAt = now)
            /\ lastFetch.kind = "ok" =>
                    IF lastFetch.countsAt.ConsecutiveSuccesses >= cbCfg.MaxRequests
                    THEN lastFetch.stateAfter = "closed"
                    ELSE lastFetch.stateAfter = "half-open")
    /\ []((lastFetch.done /\ lastFetch.stateAt = "open") => lastFetch.kind = "open")

\* the breaker closes on the second success of a half-open period
C23_Witness ==
    /\ lastFetch.done
    /\ lastFetch.stateAt = "half-open"
    /\ lastFetch.stateAfter = "closed"
    /\ lastFetch.countsAt.ConsecutiveSuccesses = cbCfg.MaxRequests
    /\ cb.state = "closed"
    /\ cb.counts = ZeroCounts

\* an HTTP attempt of a Fetch in flight is made in this step
AttemptMade == \E f \in Fetchers : ft[f].pc = "run" /\ ft'[f].pc = "run" /\ ft'[f].n = ft[f].n + 1

\* the breaker lets a Fetch through in this step
Admission == \E f \in Fetchers : ft[f].pc = "idle" /\ ft'[f].pc = "run"

\* C24: one Fetch is one breaker call: the breaker counts one request when it
\* lets the Fetch through and none for the HTTP attempts made inside it, and
\* when the Fetch returns it has counted that one request and, in a closed
\* window, one failure when the final attempt failed or one success otherwise.
C24_OneBreakerCall ==
    /\ [][Admission =>
            cb'.counts.Requests = (IF cb'.generation = cb.generation THEN cb.counts.Requests ELSE 0) + 1]_vars
    /\ [][AttemptMade => cb' = cb]_vars
    /\ []((lastFetch.done /\ Admitted(lastFetch)) =>
            /\ lastFetch.kind = "ok" <=> (lastFetch.last # "err" /\ StatusOf(lastFetch.last) < 400)
            /\ lastFetch.sameGen =>
                    /\ lastFetch.countsAt.Requests = lastFetch.reqAdm
                    /\ lastFetch.countsBefore.Requests = lastFetch.reqAdm
            /\ (lastFetch.sameGen /\ lastFetch.stateAt = "closed") =>
                    /\ lastFetch.countsAt.TotalFailures =
                            lastFetch.countsBefore.TotalFailures + (IF lastFetch.kind = "ok" THEN 0 ELSE 1)
                    /\ lastFetch.countsAt.TotalSuccesses =
                            lastFetch.countsBefore.TotalSuccesses + (IF lastFetch.kind = "ok" THEN 1 ELSE 0)
                    /\ lastFetch.stateAfter = "closed" => cb.counts = lastFetch.countsAt)

\* three HTTP attempts that all fail, counted as one request and one failure
C24_Witness ==
    /\ lastFetch.done
    /\ lastFetch.attempts = 3
    /\ lastFetch.kind = "status"
    /\ lastFetch.sameGen
    /\ cb.state = "closed"
    /\ cb.counts.Requests = 2
    /\ cb.counts.TotalFailures = 1
    /\ cb.counts.TotalSuccesses = 1

\* the retry loop makes a further attempt only after a request error or a
\* status >= 500
RetriesOnlyTransient ==
    \A f \in Fetchers :
        (ft[f].pc = "run" /\ ft[f].n >= 1 /\ ft'[f].pc = "run" /\ ft'[f].n = ft[f].n + 1) =>
            (ft[f].last = "err" \/ StatusOf(ft[f].last) >= 500)

\* C25 as stated: a Fetch makes at most max_attempts HTTP attempts in total,
\* a further attempt only after a network error or a status >= 500, and none
\* after a 4xx.
C25_AtMostMaxAttempts ==
    /\ [](lastFetch.done => lastFetch.attempts <= MaxAttempts)
    /\ [][RetriesOnlyTransient]_vars

\* C25 as amended: a Fetch makes at most max_attempts + 1 HTTP attempts in
\* total (the first and max_attempts retries), a further attempt only after a
\* request error or a status >= 500, and none after a 4xx.
C25_AtMostOneMore ==
    /\ [](lastFetch.done => lastFetch.attempts <= MaxAttempts + 1)
    /\ [](\A f \in Fetchers : ft[f].n <= MaxAttempts + 1)
    /\ [][RetriesOnlyTransient]_vars
    /\ [](\A f \in Fetchers : (ft[f].pc = "run" /\ ft[f].last = "404") => ~CanAttempt(ft[f]))

\* the last retry is answered with a 4xx, which ends the Fetch
C25_Witness ==
    /\ lastFetch.done
    /\ lastFetch.attempts = MaxAttempts + 1
    /\ lastFetch.last = "404"
    /\ lastFetch.kind = "status"

\* C26 as stated: when every attempt receives a 5xx, a Fetch configured with
\* MaxAttempts = N performs exactly N + 1 requests and returns an error with
\* no contents.
C26_ExactlyNPlusOne ==
    (lastFetch.done /\ Admitted(lastFetch) /\ lastFetch.all5xx) =>
        /\ lastFetch.attempts = MaxAttempts + 1
        /\ lastFetch.kind # "ok"
        /\ ~lastFetch.contents

\* C26 as amended: when every attempt receives a 5xx and the context handed to
\* Fetch is not cancelled, a Fetch configured with MaxAttempts = N performs
\* exactly N + 1 requests and returns an error with no contents; with a
\* cancelled context it performs at most N + 1 and returns an error.
C26_NPlusOneUncancelled ==
    (lastFetch.done /\ Admitted(lastFetch) /\ lastFetch.all5xx) =>
        /\ ~lastFetch.cancelled => lastFetch.attempts = MaxAttempts + 1
        /\ lastFetch.attempts >= 1 /\ lastFetch.attempts <= MaxAttempts + 1
        /\ lastFetch.kind # "ok"
        /\ ~lastFetch.contents

C26_Witness ==
    /\ lastFetch.done
    /\ lastFetch.all5xx
    /\ ~lastFetch.cancelled
    /\ lastFetch.attempts = MaxAttempts + 1
    /\ lastFetch.kind = "status"
    /\ lastFetch.last = "500"


\* ------------------------------------------------------------ C27 .. C30

\* a Repository.Search that returned a result
Answered == qr.done /\ qr.err = "nil"

\* C27: validation of search params never rejects: a search fails only when a
\* statement fails, a page < 1 becomes 1, a page_size < 1 becomes 20, a
\* page_size > 100 becomes 100, an empty sort_by becomes score, an empty
\* sort_order becomes desc, values in range are kept, and the result is for a
\* page >= 1 and a page_size between 1 and 100
C27_ValidateClamps ==
    qr.done =>
        /\ qr.err \in {"nil", "db"}
        /\ Validate(qr.p).SortBy = (IF qr.p.SortBy = "" THEN "score" ELSE qr.p.SortBy)
        /\ Validate(qr.p).SortOrder = (IF qr.p.SortOrder = "" THEN "desc" ELSE qr.p.SortOrder)
        /\ Validate(Validate(qr.p)) = Validate(qr.p)
        /\ qr.err = "nil" =>
            /\ qr.res.Page >= 1
            /\ qr.res.PageSize >= 1
            /\ qr.res.PageSize <= 100
            /\ qr.res.Page = (IF qr.p.Page < 1 THEN 1 ELSE qr.p.Page)
            /\ qr.res.PageSize = (IF qr.p.PageSize < 1 THEN 20 ELSE IF qr.p.PageSize > 100 THEN 100 ELSE qr.p.PageSize)

\* a search with page 0 and page_size 101 was answered for page 1, page_size 100
C27_Witness ==
    /\ Answered
    /\ qr.p.Page = 0
    /\ qr.p.PageSize = 101
    /\ qr.p.SortBy = ""
    /\ qr.res.Page = 1
    /\ qr.res.PageSize = 100

\* C28: a search result holds at most page_size contents, its total is the
\* number of rows that matched when they were counted, and its total_pages is
\* the ceiling of total / page_size
C28_PageBounds ==
    Answered =>
        /\ qr.res.PageSize = Validate(qr.p).PageSize
        /\ Len(qr.res.Contents) <= qr.res.PageSize
        /\ qr.res.Total = Cardinality(Matching(qr.at, Validate(qr.p)))
        /\ qr.res.TotalPages * qr.res.PageSize >= qr.res.Total
        /\ (qr.res.TotalPages - 1) * qr.res.PageSize < qr.res.Total

\* three rows match, the page holds two of them and there are two pages
C28_Witness ==
    /\ Answered
    /\ qr.res.Total = 3
    /\ qr.res.PageSize = 2
    /\ Len(qr.res.Contents) = 2
    /\ qr.res.TotalPages = 2

\* the sort falls back to score: relevance without a query, or a sort_by that
\* is none of the sort fields
FallsBack(p) ==
    \/ p.SortBy = "relevance" /\ p.Query = ""
    \/ p.SortBy \notin {"", "relevance", "score", "published_at"}

\* C29: a search sorted by relevance with an empty query, or by an unrecognised
\* sort_by, may return exactly the results the same search sorted by score in
\* the same direction may return
C29_FallbackToScore ==
    Answered /\ FallsBack(qr.p) =>
        /\ qr.any = qr.twin
        /\ qr.res \in qr.twin

\* a relevance search with an empty query returned two rows of different
\* scores, in an order other than that of their published_at
C29_Witness ==
    /\ Answered
    /\ qr.p.SortBy = "relevance"
    /\ qr.p.Query = ""
    /\ qr.p.SortOrder = "asc"
    /\ Len(qr.res.Contents) >= 2
    /\ ScoreOf(qr.res.Contents[1]) < ScoreOf(qr.res.Contents[2])
    /\ PublishedOf(qr.res.Contents[1]) > PublishedOf(qr.res.Contents[2])

\* C30: no row whose ts_rank for a non-empty query is zero appears in the
\* relevance-ordered results for that query
C30_ZeroRankNeverShown ==
    Answered /\ qr.p.Query # "" /\ qr.p.SortBy = "relevance" =>
        \A i \in DOMAIN qr.res.Contents : TsRank(qr.res.Contents[i], qr.p.Query) > 0


\* ------------------------------------------------------------ C31 .. C39

\* C31: the score computed for a content is never negative, and the score of
\* a nil content is 0
C31_ScoreNonNegative ==
    scored.done =>
        /\ scored.score >= 0
        /\ (scored.c.nil => scored.score = 0)


\* the driver of instance i takes a tick: it leaves its startup position, or
\* consumes a tick of its ticker with an Acquire
TickTaken(i) ==
    \/ pc[i] = "startup" /\ pc'[i] # "startup"
    \/ tickReady[i] /\ ~tickReady'[i] /\ Acquiring(i)'

\* C33: an instance has at most one driver, and its driver takes a tick (and
\* issues that tick's Acquire) only while no SyncAll of an earlier tick of the
\* instance is running; a tick that arrives during a SyncAll waits in the
\* ticker's channel
C33_OneTickAtATime ==
    /\ [](\A i \in Inst : wg[i] <= 1)
    /\ [][\A i \in Inst : TickTaken(i) => ~Syncing(i) /\ pc[i] \in {"startup", "waiting"}]_vars
    /\ [][\A i \in Inst : (Syncing(i) /\ tickReady[i] /\ Syncing(i)') => tickReady'[i]]_vars

\* a tick is due on an instance whose SyncAll is still running
C33_Witness == \E i \in Inst : pc[i] = "syncing" /\ tickReady[i]


\* a manual SyncProvider that has returned
ProviderSynced == adm.done /\ adm.op = "SyncProvider"

\* a manual SyncProvider of a name that matches no registered provider
UnknownName == adm.op = "SyncProvider" /\ adm.name \notin Providers

\* C32: SyncProvider with a name that matches no registered provider returns
\* a nil result and a nil error and the handler answers 404; during the call
\* no Fetch and no BulkUpsert is called, and whatever changes in the table is
\* written by the tick of a scheduler
C32_UnknownProvider ==
    /\ []((ProviderSynced /\ UnknownName) =>
            /\ adm.result = <<>>
            /\ adm.err = "nil"
            /\ adm.status = 404)
    /\ []((adm.op # "none" /\ UnknownName) =>
            \A idx \in DOMAIN ProviderList :
                gor[idx] = "none" /\ outcome[idx] = "none" /\ batch[idx] = NoBatch)
    /\ [][(adm.pc = "running" /\ UnknownName /\ rows' # rows) =>
            \E i \in Inst : Syncing(i) /\ job'[i] # job[i]]_vars

\* SyncProvider("provider_c") has returned, and SyncProvider of a registered
\* name would have written
C32_Witness ==
    /\ ProviderSynced
    /\ adm.name = "provider_c"
    /\ adm.status = 404
    /\ BulkUpsert(rows, Fetched("provider_a"), now, BuiltAt(Fetched("provider_a"), now)) # rows

\* instance i holds the sync lock and its SyncAll is running
TickSyncing(i) ==
    /\ Syncing(i)
    /\ redis[LockKey].val # NoTok
    /\ redis[LockKey].val = mutexes[i][LockKey]

\* C34: a manual SyncAll or SyncProvider starts whatever the state of the lock
\* and changes neither the key in the backend nor any locker's table; the key
\* changes only in a scheduler's tick (its Acquire, its Release after SyncAll)
\* or by expiry
C34_ManualSyncIgnoresLock ==
    /\ []((adm.pc = "idle" /\ ~adm.done) => ENABLED AdminBegin("SyncAll", ""))
    /\ []((adm.pc = "idle" /\ ~adm.done) => \A name \in AdminNames : ENABLED AdminBegin("SyncProvider", name))
    /\ [][(adm' # adm \/ syncVars' # syncVars) => (redis' = redis /\ mutexes' = mutexes)]_vars
    /\ [][(redis' # redis \/ mutexes' # mutexes) =>
            \/ now' # now
            \/ \E i \in Inst : TickTaken(i) \/ AcquireReturns(i)
            \/ \E i \in Inst : (Releasing(i) /\ ~Releasing(i)') \/ (Unlocking(i) /\ ~Unlocking(i)')]_vars

\* a manual sync took the time of its BulkUpsert and wrote to the table while
\* a tick held the lock and its SyncAll was running
C34_Witness ==
    /\ adm.pc = "running"
    /\ \E idx \in DOMAIN ProviderList, i \in Inst :
        /\ batch[idx].called
        /\ outcome[idx] = "ok"
        /\ Upserted(idx)
        /\ TickSyncing(i)
        /\ syncCtx[i].deadline - cfg.timeout <= stamp[idx]


\* the Search call that returned in the latest step called Set
WroteCache == lastSearch.done /\ lastSearch.setKey # ""

\* C35: a Search calls Set only after its repository search succeeded, with
\* that search's result and the key of its clamped params; a Search whose
\* repository search failed writes nothing; and a JSON entry appears under a
\* key only in the step of such a Search
C35_WriteAfterSearch ==
    /\ [](WroteCache =>
            /\ lastSearch.repoCalls = 1
            /\ lastSearch.repoErr = "nil"
            /\ lastSearch.setKey = buildSearchCacheKey(Validate(lastSearch.raw))
            /\ lastSearch.repoRes.Page = Validate(lastSearch.raw).Page
            /\ lastSearch.repoRes.PageSize = Validate(lastSearch.raw).PageSize
            /\ lastSearch.setErr = "nil" =>
                /\ lastSearch.stored.kind = "json"
                /\ lastSearch.stored.body = lastSearch.repoRes
                /\ cache[buildKey(lastSearch.setKey)] = lastSearch.stored)
    /\ []((lastSearch.done /\ lastSearch.repoErr # "nil") =>
            /\ lastSearch.setKey = ""
            /\ lastSearch.stored = NoEntry
            /\ lastSearch.err = lastSearch.repoErr)
    /\ [][\A k \in CacheKeys :
            (cache'[k] # cache[k] /\ cache'[k].kind = "json") =>
                /\ lastSearch'.done
                /\ lastSearch'.repoCalls = 1
                /\ lastSearch'.repoErr = "nil"
                /\ k = buildKey(lastSearch'.setKey)
                /\ cache'[k].body = lastSearch'.repoRes]_vars
    /\ [][(lastSearch'.done /\ lastSearch'.repoErr # "nil") => cache' = cache]_vars

\* a Search stored a non-empty result it got from the repository
C35_Witness ==
    /\ WroteCache
    /\ lastSearch.setErr = "nil"
    /\ Len(lastSearch.repoRes.Contents) > 0
    /\ cache[buildKey(lastSearch.setKey)].body = lastSearch.repoRes


\* C36: two params that differ in any of their six fields after clamping get
\* different cache keys, in the service and under the cache's prefix, also
\* when the query holds ':' characters
C36_KeyInjective ==
    keyCalls[1].t >= 0 =>
        /\ keyCalls[1].key = keyCalls[2].key => Validate(keyCalls[1].p) = Validate(keyCalls[2].p)
        /\ buildKey(keyCalls[1].key) = buildKey(keyCalls[2].key) => Validate(keyCalls[1].p) = Validate(keyCalls[2].p)

\* keys were built for the query "go:video" without a type and for the query
\* "go" with the type video, all other fields equal, and they differ
C36_Witness ==
    /\ keyCalls[1].t >= 0
    /\ keyCalls[1].p.Query = "go:video"
    /\ keyCalls[1].p.Type = ""
    /\ keyCalls[2].p = [keyCalls[1].p EXCEPT !.Query = "go", !.Type = "video"]
    /\ keyCalls[1].key # keyCalls[2].key


\* the rows of the table that belong to provider p
RowsOf(tbl, p) == {r \in tbl : r.pid = p}

\* the goroutine of provider idx has settled without anything to write: its
\* Fetch failed, or returned no item
NothingFetched(idx) ==
    \/ outcome[idx] = "fetchErr"
    \/ outcome[idx] = "ok" /\ batch[idx].contents = <<>>

\* C37: a provider whose Fetch fails or returns zero items has no BulkUpsert
\* called for it in that sync and its rows are the rows it had when the sync
\* began; a SyncResult with an error has Count 0
C37_NoWriteWithoutItems ==
    /\ \A idx \in DOMAIN ProviderList :
        NothingFetched(idx) =>
            /\ ~batch[idx].called
            /\ RowsOf(rows, ProviderList[idx]) = RowsOf(prevRows, ProviderList[idx])
    /\ \A idx \in DOMAIN results : results[idx].Error # "nil" => results[idx].Count = 0
    /\ \A idx \in DOMAIN ret : ret[idx].Error # "nil" => ret[idx].Count = 0

\* a second SyncAll has returned: provider_a returned no item, the Fetch of
\* provider_b failed, and both had rows in the table
C37_Witness ==
    /\ Returned
    /\ outcome[1] = "ok"
    /\ batch[1].contents = <<>>
    /\ ret[1].Error = "nil"
    /\ outcome[2] = "fetchErr"
    /\ ret[2].Error = "fetch"
    /\ RowsOf(rows, "provider_a") # {}
    /\ RowsOf(rows, "provider_b") # {}


\* the goroutine of provider idx committed a BulkUpsert in this run
Wrote(idx) == outcome[idx] = "ok" /\ batch[idx].called

\* the table after the providers that wrote in this run have written one
\* after the other, in the order of the provider list
RECURSIVE SyncInOrder(_, _)
SyncInOrder(tbl, idx) ==
    IF idx > Len(ProviderList) THEN tbl
    ELSE SyncInOrder(IF Wrote(idx) THEN BulkUpsert(tbl, batch[idx].contents, 0, BuiltAt(batch[idx].contents, 0)) ELSE tbl, idx + 1)

\* a table without created_at and updated_at, and without the id, which
\* gen_random_uuid() draws anew for every inserted row
Payloads(tbl) == {[pid |-> r.pid, ext |-> r.ext, ver |-> r.ver] : r \in tbl}

\* the same contents: the same keys with the same payloads, the rows that were
\* in the table before carry the id they had, and no id is shared
SameContents(t1, t2, before) ==
    /\ Payloads(t1) = Payloads(t2)
    /\ \A o \in before : \A r \in t1 \cup t2 : RowKey(r) = RowKey(o) => r.id = o.id
    /\ \A r, q \in t1 : r.id = q.id => r = q

\* C38: when SyncAll has returned, the table holds, timestamps aside, what it
\* would hold had the providers that wrote in this run written one after the
\* other in list order, whatever the order their fetches and upserts took
C38_AnyInterleaving ==
    Returned => SameContents(rows, SyncInOrder(prevRows, 1), prevRows)

\* both providers wrote into an empty table, provider_b before provider_a
C38_Witness ==
    /\ Returned
    /\ prevRows = {}
    /\ Wrote(1)
    /\ Wrote(2)
    /\ settled = <<2, 1>>
    /\ Cardinality(rows) = FeedSize


\* a Release of key k by locker i right after another one, whatever the
\* transport did to the first: no unlock is sent, nil is returned, the
\* backend and the table stay as the first one left them
SecondReleaseIdle(i, k) ==
    \A tr1 \in Transport, see1 \in Races(redis, k, now) :
        LET first == Release(redis, mutexes, i, k, now, tr1[1], tr1[2], see1) IN
        \A tr2 \in Transport, see2 \in Races(first.redis, k, now) :
            LET second == Release(first.redis, first.mutexes, i, k, now, tr2[1], tr2[2], see2) IN
            /\ ~second.called
            /\ second.err = "nil"
            /\ second.redis = first.redis
            /\ second.mutexes = first.mutexes

\* C39: a Release drops the caller's table entry whatever the unlock returns,
\* and a Release that finds no entry returns nil and changes neither the
\* backend nor the table; so a second Release of a key does nothing, even
\* after a first one that returned an error
C39_ReleaseOnce ==
    /\ [](\A i \in Lockers, k \in Keys : SecondReleaseIdle(i, k))
    /\ [][lastCall'.op = "Release" =>
            /\ lastCall'.mine # NoTok =>
                    \A k \in Keys : mutexes'[lastCall'.inst][k] # lastCall'.mine
            /\ lastCall'.mine = NoTok =>
                    /\ lastCall'.err = "nil"
                    /\ redis' = redis
                    /\ mutexes' = mutexes]_vars

\* a locker's acquisition of the sync key is still in the backend, unexpired
\* and never released, its table entry is gone because a Release failed, and
\* its latest call, another Release, found no entry and returned nil
C39_Witness ==
    /\ lastCall.op = "Release"
    /\ lastCall.mine = NoTok
    /\ lastCall.err = "nil"
    /\ lastCall.inst = lastHold.inst
    /\ ~lastHold.released
    /\ lastHold.exp >= now
    /\ redis[LockKey].val # NoTok
    /\ lastCall.before = redis[LockKey].val
    /\ \A k \in Keys : mutexes[lastCall.inst][k] = NoTok

====
